---------------------------- MODULE Spec2Model ----------------------------
(***************************************************************************)
(* Model of the lumino Python SDK (src/src/lumino): one LuminoSDK client,  *)
(* its aiohttp session handle, the request pipeline _request, the request  *)
(* schemas of models.py and the endpoint facades that call the pipeline.   *)
(*                                                                         *)
(* Callers are asyncio tasks.  A task is suspended at the awaits of the    *)
(* code (the HTTP round trip in _request, session.close() in __aexit__);   *)
(* everything between two awaits is one step.                              *)
(***************************************************************************)
EXTENDS Integers, Sequences, FiniteSets, TLC

(***************************************************************************)
(* Bounds of the model.                                                    *)
(***************************************************************************)
MaxSessions == 2      \* sessions one client creates in a run
MaxClock == 1         \* the clock runs over 0..MaxClock
MaxDate == 1          \* calendar dates are 0..MaxDate

Tasks == {1, 2}       \* the asyncio tasks that may call the client
None == 0             \* self.session = None

(***************************************************************************)
(* Values supplied by the caller at construction (sdk.py 31-42).           *)
(***************************************************************************)
DefaultBaseUrl == "https://api.lumino.ai/v1"
Constructions ==
    {[api_key |-> "test-api-key", base_url |-> "https://api.test.com/v1"],
     [api_key |-> "other-api-key", base_url |-> DefaultBaseUrl]}
LocalOffsets == {0, 1}

VARIABLES
    api_key,      \* LuminoSDK.api_key
    base_url,     \* LuminoSDK.base_url
    session,      \* LuminoSDK.session: None or the id of an aiohttp session
    sessions,     \* every aiohttp.ClientSession created so far, by id
    now,          \* the wall clock, as a UTC instant
    local_offset, \* UTC offset of the process's local time zone
    model,        \* the request model the caller built for its next call
    pc,           \* per task: "idle", "sent" (awaiting the response),
                  \*           "closing" (awaiting session.close())
    call,         \* per task: the call in progress
    scope,        \* per task: inside the body of `async with sdk`
    pending,      \* per task: the exception unwinding out of that body
    last,         \* the operation the latest step completed, if any, and
                  \* its outcome
    io,           \* the latest schema construction, serialization or
                  \* deserialization, with its arguments and its result
    files         \* the local files the client has opened, by handle

vars == <<api_key, base_url, session, sessions, now, local_offset, model,
          pc, call, scope, pending, last, io, files>>


(***************************************************************************)
(* Exceptions.  An exception is its class, and the status and message it   *)
(* carries.  NoErr stands for "nothing was raised".                        *)
(***************************************************************************)
NoErr == [kind |-> "none", status |-> 0, message |-> ""]

Raise(kind, status, message) ==
    [kind |-> kind, status |-> status, message |-> message]

\* exceptions.py 25-39: the SDK's own error for a failed API request, and
\* the name the two-kind taxonomy gives it.
SdkServerErrors == {"LuminoAPIError", "LuminoServerError"}

\* The exceptions of the transport library.
AiohttpErrors == {"aiohttp.ClientResponseError", "aiohttp.ContentTypeError",
                  "aiohttp.ClientConnectionError"}

(***************************************************************************)
(* datetime values: wall-clock fields and a time zone.  "naive" carries no *)
(* zone and is read as local time by astimezone().                         *)
(***************************************************************************)
TimeZones == {"naive", "utc", "plus1"}

DateTimes == [wall : 0..(MaxClock + 1), tz : TimeZones]

tz_offset(tz) ==
    CASE tz = "utc" -> 0
      [] tz = "plus1" -> 1
      [] OTHER -> local_offset

utcoffset(v) == tz_offset(v.tz)

\* datetime.astimezone(tz): the same instant, wall clock of the target zone.
astimezone(v, tz) ==
    [wall |-> (v.wall - utcoffset(v)) + tz_offset(tz), tz |-> tz]

\* datetime.now(): naive local wall clock.
datetime_now == [wall |-> now + local_offset, tz |-> "naive"]

\* a <= b on aware datetimes compares the instants.
datetime_le(a, b) == (a.wall - utcoffset(a)) <= (b.wall - utcoffset(b))

(***************************************************************************)
(* Arguments of a schema constructor: a field is left unset, passed as     *)
(* None, or passed a value.                                                *)
(***************************************************************************)
FillerTime == [wall |-> 0, tz |-> "utc"]
FillerName == <<>>

Unset(filler) == [st |-> "unset", v |-> filler]
Null(filler) == [st |-> "null", v |-> filler]
Val(v) == [st |-> "val", v |-> v]

\* Names are strings over a small alphabet.
LowerAlnumDash == {"k", "1", "-"}
Names == {<<"k", "-", "1">>, <<"K">>}

NameMinLength == 1
NameMaxLength == 255

\* A faulty variant of NameField: the longest name allowed is refused.
Mutant_NameField(s) ==
    /\ Len(s) >= NameMinLength
    /\ Len(s) < NameMaxLength
    /\ \A i \in 1..Len(s) : s[i] \in LowerAlnumDash

\* models.py 105-107: NameField(min_length=1, max_length=255,
\* pattern="^[a-z0-9-]+$")
NameField(s) ==
    /\ Len(s) >= NameMinLength
    /\ Len(s) <= NameMaxLength
    /\ \A i \in 1..Len(s) : s[i] \in LowerAlnumDash

ExpirationMessage == "Expiration date must be in the future"

\* A faulty variant of the check below: the boundary instant is let through.
Mutant_expiration_must_be_future(v) ==
    IF datetime_le(astimezone(v, "utc"), astimezone(datetime_now, "utc"))
       /\ ~ datetime_le(astimezone(datetime_now, "utc"), astimezone(v, "utc"))
    THEN Raise("LuminoClientError", 0, ExpirationMessage)
    ELSE NoErr

\* models.py 115-118
_expiration_must_be_future(v) ==
    IF datetime_le(astimezone(v, "utc"), astimezone(datetime_now, "utc"))
    THEN Raise("LuminoClientError", 0, ExpirationMessage)
    ELSE NoErr

\* The field validator of expires_at (models.py 163-165, 176-178) runs on
\* every value the caller passed, None included; None has no astimezone.
expiration_must_be_future(arg) ==
    CASE arg.st = "unset" -> NoErr
      [] arg.st = "null" -> Raise("AttributeError", 0, "astimezone")
      [] OTHER -> _expiration_must_be_future(arg.v)

\* A field error pydantic collects into its ValidationError.
FieldErrors(name) ==
    IF name.st = "val" /\ ~ NameField(name.v)
    THEN Raise("pydantic.ValidationError", 0, "name")
    ELSE NoErr

\* models.py 155-165: what constructing ApiKeyCreate(name, expires_at)
\* raises.  An exception of the validator that is not a ValueError leaves
\* the constructor at once; field errors are reported at the end.
ApiKeyCreate(name, expires_at) ==
    IF expiration_must_be_future(expires_at) # NoErr
    THEN expiration_must_be_future(expires_at)
    ELSE FieldErrors(name)

\* models.py 168-178: the same for ApiKeyUpdate, every field optional.
ApiKeyUpdate(name, expires_at) ==
    IF expiration_must_be_future(expires_at) # NoErr
    THEN expiration_must_be_future(expires_at)
    ELSE FieldErrors(name)

NoModel ==
    [cls |-> "none", name |-> Unset(FillerName),
     expires_at |-> Unset(FillerTime)]

\* The constructed model.
NewModel(cls, name, expires_at) ==
    [cls |-> cls, name |-> name, expires_at |-> expires_at]

\* The arguments a caller can pass to the two constructors.
CreateArgs == {Val(n) : n \in Names} \X {Val(d) : d \in DateTimes}
UpdateArgs ==
    ({Unset(FillerName)} \cup {Val(n) : n \in Names})
    \X ({Unset(FillerTime), Null(FillerTime)} \cup {Val(d) : d \in DateTimes})

(***************************************************************************)
(* Wire forms.                                                             *)
(***************************************************************************)
\* models.py 109-112: strftime("%Y-%m-%dT%H:%M:%SZ") prints the wall-clock
\* fields and a literal Z.
strftime_Z(v) == [wall |-> v.wall, suffix |-> "Z"]

\* sdk.py 15-20: DateTimeEncoder renders a datetime with isoformat(), which
\* prints the wall-clock fields and the UTC offset of an aware value.
isoformat(v) ==
    [wall |-> v.wall,
     suffix |-> CASE v.tz = "utc" -> "+00:00"
                  [] v.tz = "plus1" -> "+01:00"
                  [] OTHER -> ""]

NullWire == [wall |-> 0, suffix |-> "null"]
NoBody == [keys |-> {}, name |-> FillerName, expires_at |-> NullWire]

\* api_key.py 51: json=api_key_create.dict(); the DateTime field is
\* serialized by its PlainSerializer.
ApiKeyCreate_dict(m) ==
    [keys |-> {"name", "expires_at"},
     name |-> m.name.v,
     expires_at |-> strftime_Z(m.expires_at.v)]

\* A faulty variant of the body of update_api_key: dict() without
\* exclude_unset, so every field is a key.
Mutant_ApiKeyUpdate_dict(m) ==
    [keys |-> {"name", "expires_at"},
     name |-> m.name.v,
     expires_at |-> IF m.expires_at.st = "val"
                    THEN isoformat(m.expires_at.v) ELSE NullWire]

\* api_key.py 109-113: json=api_key_update.dict(exclude_unset=True); the
\* plain datetime field is left to DateTimeEncoder in _request.
ApiKeyUpdate_dict(m) ==
    [keys |-> {k \in {"name", "expires_at"} :
                  IF k = "name" THEN m.name.st # "unset"
                  ELSE m.expires_at.st # "unset"},
     name |-> m.name.v,
     expires_at |-> IF m.expires_at.st = "val"
                    THEN isoformat(m.expires_at.v) ELSE NullWire]

\* date.isoformat() of a query parameter: the date as YYYY-MM-DD text.
date_isoformat(d) == [fmt |-> "YYYY-MM-DD", day |-> d]
NoParams == [keys |-> {}, start_date |-> date_isoformat(0),
             end_date |-> date_isoformat(0)]
DateParams(start_date, end_date) ==
    [keys |-> {"start_date", "end_date"},
     start_date |-> date_isoformat(start_date),
     end_date |-> date_isoformat(end_date)]


(***************************************************************************)
(* Sessions, requests and responses.                                       *)
(***************************************************************************)
NoHeaders == [XApiKey |-> "", ContentType |-> ""]

\* aiohttp.ClientSession(headers={"X-API-Key": self.api_key})
ClientSession(key) ==
    [headers |-> [XApiKey |-> key, ContentType |-> ""],
     state |-> "open", closes |-> 0]

\* A request's headers: the session's defaults, overridden by its own.
MergeHeaders(defaults, own) ==
    [XApiKey |-> IF own.XApiKey # "" THEN own.XApiKey ELSE defaults.XApiKey,
     ContentType |-> IF own.ContentType # "" THEN own.ContentType
                     ELSE defaults.ContentType]

\* A faulty variant of _ensure_session: the session it creates has no
\* headers.
Mutant_ensure_session(s, ss, key) ==
    IF s = None
    THEN [session |-> Len(ss) + 1,
          sessions |-> Append(ss, [ClientSession(key) EXCEPT
                                      !.headers = NoHeaders])]
    ELSE [session |-> s, sessions |-> ss]

\* A faulty variant of _ensure_session: it does not look at the handle and
\* creates a session for every request.
Mutant_ensure_session_always(s, ss, key) ==
    [session |-> Len(ss) + 1, sessions |-> Append(ss, ClientSession(key))]

\* sdk.py 56-59
_ensure_session(s, ss, key) ==
    IF s = None
    THEN [session |-> Len(ss) + 1, sessions |-> Append(ss, ClientSession(key))]
    ELSE [session |-> s, sessions |-> ss]

\* A faulty variant of __aenter__: a session is created on every entry.
Mutant_aenter(s, ss, key) ==
    [session |-> Len(ss) + 1, sessions |-> Append(ss, ClientSession(key))]

\* sdk.py 44-48
__aenter__(s, ss, key) ==
    IF s = None
    THEN [session |-> Len(ss) + 1, sessions |-> Append(ss, ClientSession(key))]
    ELSE [session |-> s, sessions |-> ss]

\* session.close() is called: the session starts closing.
CloseCalled(ss, s) ==
    [ss EXCEPT ![s].closes = @ + 1,
               ![s].state = IF @ = "open" THEN "closing" ELSE @]

\* session.close() has returned.
CloseDone(ss, s) == [ss EXCEPT ![s].state = "closed"]

\* A faulty variant of __aexit__: the session is left open when the body raised.
Mutant_aexit_begin(s, ss, exc) ==
    IF s # None /\ exc = NoErr
    THEN [closing |-> s, sessions |-> CloseCalled(ss, s)]
    ELSE [closing |-> None, sessions |-> ss]

\* sdk.py 50-53: `if self.session: await self.session.close()`, up to the
\* await.  The exception passed in is not looked at.
__aexit__begin(s, ss, exc) ==
    IF s # None
    THEN [closing |-> s, sessions |-> CloseCalled(ss, s)]
    ELSE [closing |-> None, sessions |-> ss]

\* A faulty variant of __aexit__: the handle is kept after the close.
Mutant_aexit_end(s) == s

\* sdk.py 54: `self.session = None`, after the await.
__aexit__end(s) == None

\* A faulty variant of __aexit__: it returns True, which suppresses the
\* exception.
Mutant_aexit_returns == TRUE

\* sdk.py 50-54: __aexit__ has no return statement; its result is falsy.
__aexit__returns == FALSE

\* The `async with` statement: the exception of the body is raised again
\* unless __aexit__ returned a true value.
AsyncWithRaises(exc, returned) == IF returned THEN NoErr ELSE exc

FillerEndpoint == [path |-> "", name |-> FillerName]
NoReq ==
    [session |-> None, headers |-> NoHeaders, method |-> "", base |-> "",
     endpoint |-> FillerEndpoint, json |-> FALSE, body |-> NoBody,
     params |-> NoParams]

\* sdk.py 77-85: the request handed to session.request.  The url is
\* base_url followed by the endpoint; a json body is serialized and gets the
\* content type application/json.
BuildRequest(s, ss, base, method, endpoint, json, body, params) ==
    [session |-> s,
     headers |-> MergeHeaders(ss[s].headers,
                    [XApiKey |-> "",
                     ContentType |-> IF json THEN "application/json" ELSE ""]),
     method |-> method, base |-> base, endpoint |-> endpoint,
     json |-> json, body |-> body, params |-> params]

\* sdk.py 61-85: _request up to the await of the response.
_request(s, ss, key, base, method, endpoint, json, body, params) ==
    LET e == _ensure_session(s, ss, key)
    IN  [session |-> e.session, sessions |-> e.sessions,
         req |-> BuildRequest(e.session, e.sessions, base, method, endpoint,
                              json, body, params)]

(***************************************************************************)
(* What the server, or the network, answers.                               *)
(***************************************************************************)
Statuses == {200, 404}

ReasonPhrase(status) ==
    CASE status = 200 -> "OK"
      [] status = 204 -> "No Content"
      [] OTHER -> "Not Found"

\* Bodies: a JSON object that fits the endpoint's response model, a JSON
\* object with a `message` field, one without, and text that is not JSON.
Bodies == {"model", "message", "detail", "text"}

\* Bodies of a response without content: the JSON text `null` (or nothing)
\* sent as application/json, and no body with no Content-Type at all.
NoContentBodies == {"null", "empty"}

\* response.json() checks the Content-Type before it looks at the body: it
\* raises ContentTypeError unless the type is application/json, and gives
\* None for an empty body or `null` of that type.
BodyIsJson(b) == b \notin {"text", "empty"}
BodyHasMessage(b) == b = "message"
BodyMessage(b) == "not found"
BodyText(b) ==
    CASE b = "model" -> "{\"id\": ...}"
      [] b = "message" -> "{\"message\": \"not found\"}"
      [] b = "detail" -> "{\"detail\": \"no\"}"
      [] b = "null" -> "null"
      [] b = "empty" -> ""
      [] OTHER -> "<html>"

NoResp == [failure |-> FALSE, status |-> 0, reason |-> "", body |-> "none"]
TransportFailure ==
    [failure |-> TRUE, status |-> 0, reason |-> "", body |-> "none"]
Responses ==
    {[failure |-> FALSE, status |-> st, reason |-> ReasonPhrase(st),
      body |-> b] : st \in Statuses, b \in Bodies}
    \cup {TransportFailure}

\* sdk.py 85-87: `async with self.session.request(...) as response:
\* response.raise_for_status(); return await response.json()`.  A failure of
\* the transport leaves session.request as aiohttp's exception;
\* raise_for_status raises aiohttp's ClientResponseError with the status and
\* the reason phrase for a status >= 400; json() raises on a body that is
\* not JSON.  The body of a failed response is not read.
_request_response(resp) ==
    CASE resp.failure ->
            [err |-> Raise("aiohttp.ClientConnectionError", 0, ""),
             data |-> "none"]
      [] resp.status >= 400 ->
            [err |-> Raise("aiohttp.ClientResponseError", resp.status,
                           resp.reason),
             data |-> "none"]
      [] ~ BodyIsJson(resp.body) ->
            [err |-> Raise("aiohttp.ContentTypeError", resp.status,
                           "unexpected mimetype"),
             data |-> "none"]
      [] OTHER -> [err |-> NoErr, data |-> resp.body]

\* The public pipeline `request` that usage.py and billing.py call: it
\* raises the server error with the status and the body's message (the raw
\* body without one), also for a failure of the transport.
request_response(resp) ==
    CASE resp.failure ->
            [err |-> Raise("LuminoServerError", 0, "transport"),
             data |-> "none"]
      [] resp.status >= 400 ->
            [err |-> Raise("LuminoServerError", resp.status,
                           IF BodyIsJson(resp.body) /\ BodyHasMessage(resp.body)
                           THEN BodyMessage(resp.body)
                           ELSE BodyText(resp.body)),
             data |-> "none"]
      [] ~ BodyIsJson(resp.body) ->
            [err |-> Raise("LuminoServerError", resp.status,
                           BodyText(resp.body)),
             data |-> "none"]
      [] OTHER -> [err |-> NoErr, data |-> resp.body]

\* The endpoint wraps the mapping into its response model (for example
\* api_key.py 52: ApiKeyWithSecretResponse(**data)); a mapping without the
\* model's fields fails pydantic's validation.
WrapResponse(data) ==
    IF data = "model"
    THEN [err |-> NoErr, ret |-> "model"]
    ELSE [err |-> Raise("pydantic.ValidationError", 0, "missing"),
          ret |-> "none"]


(***************************************************************************)
(* The date-ranged endpoints.                                              *)
(***************************************************************************)
DateMessage == "end_date must be equal to or after start_date"
Dates == 0..MaxDate

\* A faulty variant of the check below: equal dates are rejected too.
Mutant_get_total_cost_check(start_date, end_date) ==
    IF end_date <= start_date
    THEN Raise("ValueError", 0, DateMessage)
    ELSE NoErr

\* usage.py 44-45
get_total_cost_check(start_date, end_date) ==
    IF end_date < start_date
    THEN Raise("ValueError", 0, DateMessage)
    ELSE NoErr

\* usage.py 75-76
list_usage_records_check(start_date, end_date) ==
    IF end_date < start_date
    THEN Raise("ValueError", 0, DateMessage)
    ELSE NoErr

\* A faulty variant of the check below: it raises the built-in ValueError.
Mutant_get_credit_history_check(start_date, end_date) ==
    IF start_date > end_date
    THEN Raise("ValueError", 0, DateMessage)
    ELSE NoErr

\* billing.py 50-51
get_credit_history_check(start_date, end_date) ==
    IF start_date > end_date
    THEN Raise("LuminoClientError", 0, DateMessage)
    ELSE NoErr

DatedOps == {"get_total_cost", "list_usage_records", "get_credit_history"}

DateCheck(op, start_date, end_date) ==
    CASE op = "get_total_cost" -> get_total_cost_check(start_date, end_date)
      [] op = "list_usage_records" ->
            list_usage_records_check(start_date, end_date)
      [] OTHER -> get_credit_history_check(start_date, end_date)

\* usage.py 52, 88 and billing.py 58: the path each call requests.
DatedPath(op) ==
    CASE op = "get_total_cost" -> "/usage/total-cost"
      [] op = "list_usage_records" -> "/usage/records"
      [] OTHER -> "/billing/credit-history"

\* The public pipeline `request` up to the await of the response: it
\* acquires the session lazily and sends through it.
request(s, ss, key, base, method, endpoint, params) ==
    LET e == _ensure_session(s, ss, key)
    IN  [session |-> e.session, sessions |-> e.sessions,
         req |-> BuildRequest(e.session, e.sessions, base, method, endpoint,
                              FALSE, NoBody, params)]

(***************************************************************************)
(* The API-key endpoints (api_key.py), which call _request.                *)
(***************************************************************************)
KeyNames == {<<"k", "-", "1">>}
ApiKeyOps == {"create_api_key", "update_api_key", "get_api_key"}

\* api_key.py 51, 70, 90, 109-113: method, endpoint and body of each call.
ApiKeyRequest(op, key_name, m) ==
    CASE op = "create_api_key" ->
            [method |-> "POST",
             endpoint |-> [path |-> "/api-keys", name |-> FillerName],
             json |-> TRUE, body |-> ApiKeyCreate_dict(m)]
      [] op = "update_api_key" ->
            [method |-> "PATCH",
             endpoint |-> [path |-> "/api-keys/", name |-> key_name],
             json |-> TRUE, body |-> ApiKeyUpdate_dict(m)]
      [] OTHER ->
            [method |-> "GET",
             endpoint |-> [path |-> "/api-keys/", name |-> key_name],
             json |-> FALSE, body |-> NoBody]

\* A faulty variant of the test below: the call checks the expiry of the
\* model it is given once more.
Mutant_ModelFits(op, m) ==
    CASE op = "create_api_key" ->
            /\ m.cls = "ApiKeyCreate"
            /\ expiration_must_be_future(m.expires_at) = NoErr
      [] op = "update_api_key" ->
            /\ m.cls = "ApiKeyUpdate"
            /\ expiration_must_be_future(m.expires_at) = NoErr
      [] OTHER -> m = NoModel

\* The request model each call takes.
ModelFits(op, m) ==
    CASE op = "create_api_key" -> m.cls = "ApiKeyCreate"
      [] op = "update_api_key" -> m.cls = "ApiKeyUpdate"
      [] OTHER -> m = NoModel

\* A faulty variant of _request: a failed attempt is sent again.
Mutant_request_retries(err) == err # NoErr

\* sdk.py 85-87: _request has no loop; an exception leaves it.
_request_retries(err) == FALSE

(***************************************************************************)
(* The other request schemas of models.py and the bodies their calls send. *)
(***************************************************************************)
\* A string of n copies of the character c.
Repeat(c, n) == [i \in 1..n |-> c]

UserNameMinLength == 1
UserNameMaxLength == 255
DescriptionMaxLength == 1000

\* Strings a caller may pass as a name: empty, valid, with an upper-case
\* letter, an underscore or a trailing newline, and at the length limit
\* and one past it.
NameInputs ==
    {<<>>, <<"k">>, <<"k", "-", "1">>, <<"K">>, <<"k", "_">>,
     <<"k", "\n">>, <<"-">>,
     Repeat("k", NameMaxLength), Repeat("k", NameMaxLength + 1),
     Repeat("K", NameMaxLength)}

\* Descriptions: none, empty, short, at the limit and one past it.
FillerText == <<>>
DescriptionInputs ==
    {<<>>, <<"d">>, Repeat("d", DescriptionMaxLength),
     Repeat("d", DescriptionMaxLength + 1)}

\* models.py 138: UserUpdate.name = Field(None, min_length=1,
\* max_length=255), no pattern.
UserNameField(s) == Len(s) >= UserNameMinLength /\ Len(s) <= UserNameMaxLength

\* models.py 208, 216: description = Field(None, max_length=1000).
DescriptionField(s) == Len(s) <= DescriptionMaxLength

\* pydantic's error for a field that fails its constraints, is missing
\* though required, or is None though not optional.
ValidationError(field) == Raise("pydantic.ValidationError", 0, field)

\* A required `str` field: it must be passed, and not as None; ok tells
\* whether the value passed meets the field's constraints.
RequiredStr(arg, ok, field) ==
    IF arg.st = "val" /\ ok THEN NoErr ELSE ValidationError(field)

\* A `str | None` field with default None.
OptionalStr(arg, ok, field) ==
    IF arg.st = "val" /\ ~ ok THEN ValidationError(field) ELSE NoErr

\* The first error of a list of field results, NoErr when there is none.
FirstError(errs) ==
    IF \E i \in 1..Len(errs) : errs[i] # NoErr
    THEN errs[CHOOSE i \in 1..Len(errs) :
                 /\ errs[i] # NoErr
                 /\ \A j \in 1..(i - 1) : errs[j] = NoErr]
    ELSE NoErr

\* models.py 134-138
UserUpdate(name) == OptionalStr(name, UserNameField(name.v), "name")

\* models.py 203-208
DatasetCreate(name, description) ==
    FirstError(<<RequiredStr(name, NameField(name.v), "name"),
                 OptionalStr(description, DescriptionField(description.v), "description")>>)

\* models.py 211-216
DatasetUpdate(name, description) ==
    FirstError(<<OptionalStr(name, NameField(name.v), "name"),
                 OptionalStr(description, DescriptionField(description.v), "description")>>)

\* models.py 244-253: FineTuningJobCreate; its fields other than name are
\* taken as given and valid.
FineTuningJobCreate(name) == RequiredStr(name, NameField(name.v), "name")

\* The request schemas, and the fields of each that the model follows.
RequestSchemas ==
    {"ApiKeyCreate", "ApiKeyUpdate", "DatasetCreate", "DatasetUpdate",
     "FineTuningJobCreate", "UserUpdate"}
UpdateSchemas == {"ApiKeyUpdate", "DatasetUpdate", "UserUpdate"}
NamedSchemas == RequestSchemas \ {"UserUpdate"}

SchemaFields(cls) ==
    CASE cls \in {"ApiKeyCreate", "ApiKeyUpdate"} -> {"name", "expires_at"}
      [] cls \in {"DatasetCreate", "DatasetUpdate"} -> {"name", "description"}
      [] OTHER -> {"name"}

\* What constructing cls from the arguments raises.
ConstructSchema(cls, a) ==
    CASE cls = "ApiKeyCreate" ->
            \* expires_at is required and not optional: without a datetime
            \* the field fails before its validator is reached
            IF a.expires_at.st # "val" THEN ValidationError("expires_at")
            ELSE IF ApiKeyCreate(a.name, a.expires_at) # NoErr
            THEN ApiKeyCreate(a.name, a.expires_at)
            ELSE RequiredStr(a.name, NameField(a.name.v), "name")
      [] cls = "ApiKeyUpdate" -> ApiKeyUpdate(a.name, a.expires_at)
      [] cls = "DatasetCreate" -> DatasetCreate(a.name, a.description)
      [] cls = "DatasetUpdate" -> DatasetUpdate(a.name, a.description)
      [] cls = "FineTuningJobCreate" -> FineTuningJobCreate(a.name)
      [] OTHER -> UserUpdate(a.name)

\* The arguments of a constructor: one entry per field the model follows; a
\* field the schema does not have is left unset.
SchemaArgs(cls) ==
    {a \in [name : {Unset(FillerName), Null(FillerName)}
                      \cup {Val(n) : n \in NameInputs},
            expires_at : {Unset(FillerTime), Null(FillerTime)}
                            \cup {Val(d) : d \in DateTimes},
            description : {Unset(FillerText), Null(FillerText)}
                             \cup {Val(d) : d \in DescriptionInputs}] :
        /\ "expires_at" \notin SchemaFields(cls) =>
              a.expires_at = Unset(FillerTime)
        /\ "description" \notin SchemaFields(cls) =>
              a.description = Unset(FillerText)}

\* The fields the caller passed, None included.
FieldsSet(cls, a) == {f \in SchemaFields(cls) : a[f].st # "unset"}

\* dataset.py 126: json=dataset_update.dict(exclude_unset=True)
DatasetUpdate_dict(m) ==
    [keys |-> {k \in {"name", "description"} : m[k].st # "unset"},
     name |-> IF m.name.st = "val" THEN m.name.v ELSE FillerName,
     description |-> IF m.description.st = "val" THEN m.description.v
                     ELSE FillerText]

\* user.py 61: json=user_update.dict(exclude_unset=True)
UserUpdate_dict(m) ==
    [keys |-> {k \in {"name"} : m[k].st # "unset"},
     name |-> IF m.name.st = "val" THEN m.name.v ELSE FillerName]

\* The PATCH each update call hands to _request (api_key.py 109-113,
\* dataset.py 123-127, user.py 58-62): the `json` keyword is always
\* passed, so _request serializes the body whatever it holds.
UpdateCall(cls, key_name, m) ==
    CASE cls = "ApiKeyUpdate" -> ApiKeyRequest("update_api_key", key_name, m)
      [] cls = "DatasetUpdate" ->
            [method |-> "PATCH",
             endpoint |-> [path |-> "/datasets/", name |-> key_name],
             json |-> TRUE, body |-> DatasetUpdate_dict(m)]
      [] OTHER ->
            [method |-> "PATCH",
             endpoint |-> [path |-> "/users/me", name |-> FillerName],
             json |-> TRUE, body |-> UserUpdate_dict(m)]

\* The POST of create_api_key, and no call for the schemas whose calls the
\* model does not follow.
SchemaCall(cls, key_name, m) ==
    CASE cls \in UpdateSchemas -> UpdateCall(cls, key_name, m)
      [] cls = "ApiKeyCreate" -> ApiKeyRequest("create_api_key", key_name, m)
      [] OTHER -> [method |-> "", endpoint |-> FillerEndpoint,
                   json |-> FALSE, body |-> NoBody]

(***************************************************************************)
(* FineTuningJobParameters (models.py 235-241).  Numbers are counted in    *)
(* units of 1/Unit, so that 3e-4 and 2.5 can be written.                   *)
(***************************************************************************)
Unit == 10000
Num(k) == k * Unit

BatchSizeMax == 8
NumEpochsMax == 10
LrMax == 1

FillerNum == 0

\* Numbers a caller may pass for an int field: -1, 0, 1, 8, 9, 10, 11, 2.5.
IntInputs ==
    {Num(0 - 1), Num(0), Num(1), Num(8), Num(9), Num(10), Num(11),
     Num(2) + 5000}

\* Numbers a caller may pass for lr: -0.0001, 0, 0.0003, 1, 1.0001.
LrInputs == {0 - 1, 0, 3, Num(1), Num(1) + 1}

\* Numbers a caller may pass for seed: -1, 0, 1, 0.5.
SeedInputs == {Num(0 - 1), Num(0), Num(1), 5000}

\* pydantic's int takes a number without fractional part.
int_validate(n) == n % Unit = 0

\* A field with a default: left unset it takes the default, which is not
\* validated; None is refused unless the type allows it.
DefaultedField(arg, nullable, ok) ==
    CASE arg.st = "unset" -> TRUE
      [] arg.st = "null" -> nullable
      [] OTHER -> ok

\* A faulty variant of the schema below: batch_size is checked with ge=0.
Mutant_FineTuningJobParameters(batch_size, num_epochs, lr, seed) ==
    IF /\ DefaultedField(batch_size, FALSE,
             /\ int_validate(batch_size.v)
             /\ batch_size.v >= 0
             /\ batch_size.v <= Num(BatchSizeMax))
       /\ DefaultedField(num_epochs, FALSE,
             /\ int_validate(num_epochs.v)
             /\ num_epochs.v > 0
             /\ num_epochs.v <= Num(NumEpochsMax))
       /\ DefaultedField(lr, FALSE, lr.v > 0 /\ lr.v <= Num(LrMax))
       /\ DefaultedField(seed, TRUE, int_validate(seed.v) /\ seed.v >= 0)
    THEN NoErr
    ELSE ValidationError("parameters")

\* models.py 237-241: batch_size: int, gt=0, le=8; num_epochs: int, gt=0,
\* le=10; lr: float, gt=0, le=1; seed: int | None, ge=0.
FineTuningJobParameters(batch_size, num_epochs, lr, seed) ==
    IF /\ DefaultedField(batch_size, FALSE,
             /\ int_validate(batch_size.v)
             /\ batch_size.v > 0
             /\ batch_size.v <= Num(BatchSizeMax))
       /\ DefaultedField(num_epochs, FALSE,
             /\ int_validate(num_epochs.v)
             /\ num_epochs.v > 0
             /\ num_epochs.v <= Num(NumEpochsMax))
       /\ DefaultedField(lr, FALSE, lr.v > 0 /\ lr.v <= Num(LrMax))
       /\ DefaultedField(seed, TRUE, int_validate(seed.v) /\ seed.v >= 0)
    THEN NoErr
    ELSE ValidationError("parameters")

\* The arguments a caller can pass to FineTuningJobParameters.
ParameterArgs ==
    [batch_size : {Unset(FillerNum), Null(FillerNum)}
                     \cup {Val(n) : n \in IntInputs},
     num_epochs : {Unset(FillerNum), Null(FillerNum)}
                     \cup {Val(n) : n \in IntInputs},
     lr : {Unset(FillerNum), Null(FillerNum)} \cup {Val(n) : n \in LrInputs},
     seed : {Unset(FillerNum), Null(FillerNum)}
               \cup {Val(n) : n \in SeedInputs}]

(***************************************************************************)
(* The response models of models.py and the wrapping of a response.        *)
(***************************************************************************)
MaxItems == 2         \* the `data` array of a list response has 0..MaxItems

\* models.py 12-92: the enumerations and their members.
Enums ==
    {"UserStatus", "ApiKeyStatus", "DatasetStatus", "FineTuningJobStatus",
     "FineTuningJobType", "BaseModelStatus", "UsageUnit", "ServiceName",
     "BillingTransactionType", "FineTunedModelStatus", "ComputeProvider"}

EnumMembers(enum) ==
    CASE enum = "UserStatus" -> {"ACTIVE", "INACTIVE"}
      [] enum = "ApiKeyStatus" -> {"ACTIVE", "EXPIRED", "REVOKED"}
      [] enum = "DatasetStatus" ->
            {"UPLOADED", "VALIDATED", "ERROR", "DELETED"}
      [] enum = "FineTuningJobStatus" ->
            {"NEW", "QUEUED", "RUNNING", "STOPPING", "STOPPED", "COMPLETED",
             "FAILED", "DELETED"}
      [] enum = "FineTuningJobType" -> {"FULL", "LORA", "QLORA"}
      [] enum = "BaseModelStatus" -> {"ACTIVE", "INACTIVE", "DEPRECATED"}
      [] enum = "UsageUnit" -> {"TOKEN"}
      [] enum = "ServiceName" -> {"FINE_TUNING_JOB"}
      [] enum = "BillingTransactionType" ->
            {"MANUAL_ADJUSTMENT", "NEW_USER_CREDIT", "FINE_TUNING_JOB",
             "STRIPE_CHECKOUT"}
      [] enum = "FineTunedModelStatus" -> {"ACTIVE", "DELETED"}
      [] OTHER -> {"GCP", "LUM"}

\* Values a server may put in an enum field: a member, the name of a
\* member in lower case, a member of another enumeration, an unknown word.
EnumWireValues(enum) ==
    EnumMembers(enum) \cup {"active", "DELETED", "UNKNOWN"}

ResponseModels ==
    {"UserResponse", "ApiKeyResponse", "ApiKeyWithSecretResponse",
     "DatasetResponse", "FineTuningJobResponse",
     "FineTuningJobDetailResponse", "BaseModelResponse",
     "FineTunedModelResponse", "UsageRecordResponse",
     "CreditHistoryResponse"}

\* The enum-typed fields of each response model.
EnumFields(cls) ==
    CASE cls \in {"FineTuningJobResponse", "FineTuningJobDetailResponse"} ->
            {"status", "type", "provider"}
      [] cls = "UsageRecordResponse" -> {"service_name", "usage_unit"}
      [] cls = "CreditHistoryResponse" -> {"transaction_type"}
      [] OTHER -> {"status"}

EnumOf(cls, f) ==
    CASE f = "type" -> "FineTuningJobType"
      [] f = "provider" -> "ComputeProvider"
      [] f = "service_name" -> "ServiceName"
      [] f = "usage_unit" -> "UsageUnit"
      [] f = "transaction_type" -> "BillingTransactionType"
      [] cls = "UserResponse" -> "UserStatus"
      [] cls \in {"ApiKeyResponse", "ApiKeyWithSecretResponse"} ->
            "ApiKeyStatus"
      [] cls = "DatasetResponse" -> "DatasetStatus"
      [] cls = "BaseModelResponse" -> "BaseModelStatus"
      [] cls = "FineTunedModelResponse" -> "FineTunedModelStatus"
      [] OTHER -> "FineTuningJobStatus"

\* The required fields the model follows besides the enum fields.
PlainFields(cls) ==
    CASE cls = "ApiKeyResponse" -> {"name", "expires_at"}
      [] cls = "ApiKeyWithSecretResponse" -> {"name", "expires_at", "secret"}
      [] cls \in {"UsageRecordResponse", "CreditHistoryResponse"} -> {"id"}
      [] OTHER -> {"name"}

RequiredFields(cls) == EnumFields(cls) \cup PlainFields(cls)

\* A faulty variant of the enum validation: an unknown value becomes the
\* raw string instead of an error.
Mutant_Enum_validate(enum, value) ==
    [err |-> NoErr, v |-> [enum |-> enum, member |-> value]]

\* pydantic's validation of a field typed with an Enum class: the value
\* must be the value of a member.
Enum_validate(enum, value) ==
    IF value \in EnumMembers(enum)
    THEN [err |-> NoErr, v |-> [enum |-> enum, member |-> value]]
    ELSE [err |-> ValidationError("enum"),
          v |-> [enum |-> enum, member |-> ""]]

\* Timestamps as the server writes them.
WireTimes ==
    [wall : 0..(MaxClock + 1), suffix : {"Z", "+00:00", "+01:00", ""}]
    \cup {NullWire}

\* A faulty variant of the datetime validation: the zone designator is
\* dropped and the value taken as UTC one hour later.
Mutant_datetime_validate(w) ==
    IF w = NullWire
    THEN [err |-> ValidationError("datetime"), v |-> FillerTime]
    ELSE [err |-> NoErr, v |-> [wall |-> w.wall + 1, tz |-> "utc"]]

\* pydantic's validation of a required datetime field from its JSON text:
\* Z and +00:00 give a UTC value, another offset a value with that offset,
\* no designator a naive value; null is refused.
datetime_validate(w) ==
    IF w = NullWire
    THEN [err |-> ValidationError("datetime"), v |-> FillerTime]
    ELSE [err |-> NoErr,
          v |-> [wall |-> w.wall,
                 tz |-> CASE w.suffix \in {"Z", "+00:00"} -> "utc"
                          [] w.suffix = "+01:00" -> "plus1"
                          [] OTHER -> "naive"]]

\* Strings of a response: names need not match NameField.
ServerNames == {<<"k", "-", "1">>, <<"T", "e", "s", "t">>}
ServerSecrets == {<<"s", "e", "c">>, <<>>}
FillerSecret == <<>>

\* The JSON objects a server may answer for the model cls: some enum
\* values, a name, a timestamp and a secret where the model has them, and
\* at most one required field left out.
ServerObjects(cls) ==
    {d \in [enums : [EnumFields(cls) ->
                        UNION {EnumWireValues(EnumOf(cls, f)) :
                                  f \in EnumFields(cls)}],
            name : ServerNames,
            expires_at : WireTimes,
            secret : ServerSecrets,
            absent : {{}} \cup {{f} : f \in RequiredFields(cls)}] :
        /\ \A f \in EnumFields(cls) :
              d.enums[f] \in EnumWireValues(EnumOf(cls, f))
        /\ "name" \notin PlainFields(cls) => d.name = <<"k", "-", "1">>
        /\ "expires_at" \notin PlainFields(cls) =>
              d.expires_at = [wall |-> 0, suffix |-> "Z"]
        /\ "secret" \notin PlainFields(cls) => d.secret = FillerSecret}

NoRet ==
    [cls |-> "none", enums |-> <<>>, name |-> FillerName,
     expires_at |-> FillerTime, secret |-> FillerSecret]

\* A faulty variant of the wrapping: the secret is not kept.
Mutant_ResponseModel(cls, d) ==
    [err |-> NoErr,
     ret |-> [cls |-> cls,
              enums |-> [f \in EnumFields(cls) |->
                            Enum_validate(EnumOf(cls, f), d.enums[f]).v],
              name |-> d.name,
              expires_at |-> datetime_validate(d.expires_at).v,
              secret |-> FillerSecret]]

\* `Model(**data)` (for example api_key.py 52, 91): every required field
\* must be present and valid; the result holds the validated values.  A
\* field the model does not declare is ignored.
ResponseModel(cls, d) ==
    IF \/ d.absent # {}
       \/ \E f \in EnumFields(cls) :
             Enum_validate(EnumOf(cls, f), d.enums[f]).err # NoErr
       \/ /\ "expires_at" \in PlainFields(cls)
          /\ datetime_validate(d.expires_at).err # NoErr
    THEN [err |-> ValidationError("response"), ret |-> NoRet]
    ELSE [err |-> NoErr,
          ret |-> [cls |-> cls,
                   enums |-> [f \in EnumFields(cls) |->
                                 Enum_validate(EnumOf(cls, f), d.enums[f]).v],
                   name |-> d.name,
                   expires_at |-> datetime_validate(d.expires_at).v,
                   secret |-> IF "secret" \in PlainFields(cls)
                              THEN d.secret ELSE FillerSecret]]

\* The object a server answers to create_api_key when it echoes the
\* request: the fields of the body, and the fields the server adds.
EchoApiKey(body, secret) ==
    [enums |-> [f \in {"status"} |-> "ACTIVE"],
     name |-> body.name,
     expires_at |-> body.expires_at,
     secret |-> secret,
     absent |-> {}]

\* The list endpoints and the response model of their items (api_key.py
\* 71-74, dataset.py 85-88, fine_tuning.py 74-77, model.py 51-54, 90-93,
\* usage.py 89-92, billing.py 61-64).
ListEndpoints ==
    {"list_api_keys", "list_datasets", "list_fine_tuning_jobs",
     "list_base_models", "list_fine_tuned_models", "list_usage_records",
     "get_credit_history"}

ItemModel(ep) ==
    CASE ep = "list_api_keys" -> "ApiKeyResponse"
      [] ep = "list_datasets" -> "DatasetResponse"
      [] ep = "list_fine_tuning_jobs" -> "FineTuningJobResponse"
      [] ep = "list_base_models" -> "BaseModelResponse"
      [] ep = "list_fine_tuned_models" -> "FineTunedModelResponse"
      [] ep = "list_usage_records" -> "UsageRecordResponse"
      [] OTHER -> "CreditHistoryResponse"

\* A valid item of a list, told from the others by its name.
ServerItem(cls, name) ==
    [enums |-> [f \in EnumFields(cls) |->
                   CHOOSE v \in EnumMembers(EnumOf(cls, f)) : TRUE],
     name |-> name,
     expires_at |-> [wall |-> 0, suffix |-> "Z"],
     secret |-> FillerSecret,
     absent |-> {}]

ItemNames == {<<"a">>, <<"b">>}
Paginations ==
    [total_pages : {0, 2}, current_page : {1}, items_per_page : {3, 20}]

\* The `data` arrays a server may answer: 0..MaxItems valid items.
RECURSIVE SeqsUpTo(_, _)
SeqsUpTo(S, n) ==
    IF n = 0 THEN {<<>>}
    ELSE SeqsUpTo(S, n - 1)
         \cup {Append(q, x) : q \in {r \in SeqsUpTo(S, n - 1) :
                                        Len(r) = n - 1}, x \in S}

ListBodies(ep) ==
    [data : {[i \in 1..Len(q) |-> ServerItem(ItemModel(ep), q[i])] :
                q \in SeqsUpTo(ItemNames, MaxItems)},
     pagination : Paginations]

\* models.py 121-125: Pagination(**data['pagination'])
Pagination(p) ==
    [total_pages |-> p.total_pages, current_page |-> p.current_page,
     items_per_page |-> p.items_per_page]

\* A faulty variant of the list wrapping: the items come out reversed.
Mutant_ListResponse(ep, body) ==
    [data |-> [i \in 1..Len(body.data) |->
                  ResponseModel(ItemModel(ep),
                                body.data[Len(body.data) + 1 - i]).ret],
     pagination |-> Pagination(body.pagination)]

\* ListResponse(data=[Item(**item) for item in data['data']],
\* pagination=Pagination(**data['pagination']))
ListResponse(ep, body) ==
    [data |-> [i \in 1..Len(body.data) |->
                  ResponseModel(ItemModel(ep), body.data[i]).ret],
     pagination |-> Pagination(body.pagination)]

(***************************************************************************)
(* Local files, and the dataset upload and download (dataset.py, sdk.py).  *)
(***************************************************************************)
MaxFiles == 2         \* files one client opens in a run

Paths == {"data.jsonl", "missing.jsonl", "out.jsonl"}
ExistingPaths == {"data.jsonl"}

\* A faulty variant of open: a missing file is opened all the same.
Mutant_open(fs, path, mode) ==
    [err |-> NoErr,
     file |-> Len(fs) + 1,
     files |-> Append(fs, [path |-> path, mode |-> mode,
                           state |-> "open", written |-> <<>>])]

\* open(path, mode): reading a file that does not exist raises
\* FileNotFoundError; writing creates or truncates the file.
open(fs, path, mode) ==
    IF mode = "rb" /\ path \notin ExistingPaths
    THEN [err |-> Raise("FileNotFoundError", 0, path), file |-> None,
          files |-> fs]
    ELSE [err |-> NoErr,
          file |-> Len(fs) + 1,
          files |-> Append(fs, [path |-> path, mode |-> mode,
                                state |-> "open", written |-> <<>>])]

\* file.close(), also at the end of a `with open(...)` block.
close(fs, f) == [fs EXCEPT ![f].state = "closed"]

\* The two upload_dataset of the repository.
UploadVariants == {"DatasetEndpoint", "LuminoSDK"}

\* What becomes of a file object that nothing closes once the call is
\* over: the interpreter may have finalized it already, or not.
Finalizations == {"finalized", "pending"}

\* How upload_dataset leaves the file it opened.  dataset.py 55-63 holds
\* it in a `with` block, which closes it however the block is left;
\* sdk.py 208-214 hands an open file to FormData and never closes it.
upload_dataset_exit(variant, fs, f, fin) ==
    CASE variant = "DatasetEndpoint" -> close(fs, f)
      [] fin = "finalized" -> close(fs, f)
      [] OTHER -> fs

\* A faulty variant of the handler below: the error is replaced.
Mutant_upload_dataset_except(err) ==
    IF err.kind = "FileNotFoundError"
    THEN Raise("LuminoAPIError", 0, err.message) ELSE err

\* dataset.py 64-66: `except FileNotFoundError: ...; raise` logs and
\* raises the same exception again; sdk.py has no handler.
upload_dataset_except(err) == err

\* The chunks of a response body, as the transport delivers them.
BodyChunks(b) ==
    CASE b = "model" -> <<"c1", "c2">>
      [] b = "text" -> <<"c3">>
      [] OTHER -> <<"c4">>

\* Whether session.request takes the keyword `stream` that
\* download_dataset passes through _request (dataset.py 156): aiohttp's
\* signature has no such parameter, a stand-in for it may accept any.
StreamKeyword == {"rejected", "accepted"}

\* dataset.py 158-164, on the value _request returned: the output file is
\* opened for writing, then `response.content` is evaluated.  _request
\* returned the mapping parsed by response.json() (sdk.py 87), which has no
\* attribute `content`; the `with` block closes the file, and the
\* AttributeError, not being an IOError, leaves the call.
download_dataset_write(fs, output_path) ==
    LET o == open(fs, output_path, "wb")
    IN  [err |-> Raise("AttributeError", 0, "content"),
         file |-> o.file,
         files |-> close(o.files, o.file)]

(***************************************************************************)
(* The state of a call in progress, and the record of a completed one.     *)
(***************************************************************************)
NoCall ==
    [op |-> "none", via |-> "", req |-> NoReq, ndisp |-> 0,
     start_date |-> 0, end_date |-> 0,
     closing |-> None, exc |-> NoErr, scoped |-> FALSE,
     path |-> "", file |-> None]

NoEv ==
    [task |-> 0, op |-> "none",
     name |-> Unset(FillerName), expires_at |-> Unset(FillerTime),
     start_date |-> 0, end_date |-> 0,
     req |-> NoReq, ndisp |-> 0, resp |-> NoResp,
     err |-> NoErr, ret |-> "none",
     held |-> None, closed |-> None, scoped |-> FALSE,
     exc_in |-> NoErr, propagated |-> NoErr,
     path |-> "", file |-> None]

Ev(t, op) == [NoEv EXCEPT !.task = t, !.op = op]

\* Nothing has been constructed, serialized or deserialized yet.
NoIo == [fn |-> "none"]

Init ==
    /\ \E c \in Constructions : api_key = c.api_key /\ base_url = c.base_url
    /\ session = None
    /\ sessions = <<>>
    /\ now = 0
    /\ local_offset \in LocalOffsets
    /\ model = NoModel
    /\ pc = [t \in Tasks |-> "idle"]
    /\ call = [t \in Tasks |-> NoCall]
    /\ scope = [t \in Tasks |-> FALSE]
    /\ pending = [t \in Tasks |-> NoErr]
    /\ last = NoEv
    /\ io = NoIo
    /\ files = <<>>

\* No other task is in the middle of unwinding an exception (unwinding has
\* no suspension point before __aexit__ awaits).
NoOtherUnwinding(t) == \A u \in Tasks \ {t} : pending[u] = NoErr

\* Task t can start an operation.
Ready(t) == pc[t] = "idle" /\ pending[t] = NoErr /\ NoOtherUnwinding(t)

\* A session can still be created within the bound.
CanCreate == session # None \/ Len(sessions) < MaxSessions

\* The exception that leaves the body of `async with sdk` of task t.
Uncaught(t, err, caught) ==
    IF err # NoErr /\ scope[t] /\ ~ caught THEN err ELSE NoErr

\* The clock advances.
Tick ==
    /\ now < MaxClock
    /\ now' = now + 1
    /\ last' = NoEv
    /\ UNCHANGED <<io, files>>
    /\ UNCHANGED <<api_key, base_url, session, sessions, local_offset, model,
                   pc, call, scope, pending>>

\* `async with sdk:` is entered, or __aenter__ is awaited (sdk.py 44-48).
AEnter(t) ==
    /\ Ready(t)
    /\ CanCreate
    /\ LET e == __aenter__(session, sessions, api_key)
       IN  /\ session' = e.session
           /\ sessions' = e.sessions
           /\ last' = [Ev(t, "__aenter__") EXCEPT !.held = e.session]
    /\ scope' = [scope EXCEPT ![t] = TRUE]
    /\ UNCHANGED <<io, files>>
    /\ UNCHANGED <<api_key, base_url, now, local_offset, model, pc, call,
                   pending>>

\* __aexit__ is awaited: by the `async with` statement when its body ends
\* or raises, or by the caller (sdk.py 50-53).  With no session held it
\* returns at once; otherwise it awaits session.close().
AExitBegin(t) ==
    /\ pc[t] = "idle"
    /\ NoOtherUnwinding(t)
    /\ pending[t] # NoErr => scope[t]
    /\ LET b == __aexit__begin(session, sessions, pending[t])
       IN  /\ sessions' = b.sessions
           /\ IF b.closing # None
              THEN /\ pc' = [pc EXCEPT ![t] = "closing"]
                   /\ call' = [call EXCEPT ![t] =
                         [NoCall EXCEPT !.op = "__aexit__",
                                        !.closing = b.closing,
                                        !.exc = pending[t],
                                        !.scoped = scope[t]]]
                   /\ last' = NoEv
                   /\ UNCHANGED scope
              ELSE /\ scope' = [scope EXCEPT ![t] = FALSE]
                   /\ last' = [Ev(t, "__aexit__") EXCEPT
                         !.held = session,
                         !.scoped = scope[t],
                         !.exc_in = pending[t],
                         !.propagated =
                             AsyncWithRaises(pending[t], __aexit__returns)]
                   /\ UNCHANGED <<pc, call>>
    /\ pending' = [pending EXCEPT ![t] = NoErr]
    /\ UNCHANGED <<io, files>>
    /\ UNCHANGED <<api_key, base_url, session, now, local_offset, model>>

\* A faulty variant of the step below: the credential is wiped with the
\* session.
Mutant_AExitFinish(t) ==
    /\ pc[t] = "closing"
    /\ NoOtherUnwinding(t)
    /\ sessions' = CloseDone(sessions, call[t].closing)
    /\ session' = __aexit__end(session)
    /\ api_key' = ""
    /\ scope' = [scope EXCEPT ![t] = FALSE]
    /\ pc' = [pc EXCEPT ![t] = "idle"]
    /\ call' = [call EXCEPT ![t] = NoCall]
    /\ last' = [Ev(t, "__aexit__") EXCEPT
          !.held = __aexit__end(session),
          !.closed = call[t].closing,
          !.scoped = call[t].scoped,
          !.exc_in = call[t].exc,
          !.propagated = AsyncWithRaises(call[t].exc, __aexit__returns)]
    /\ UNCHANGED <<io, files>>
    /\ UNCHANGED <<base_url, now, local_offset, model, pending>>

\* session.close() has returned: the handle is cleared (sdk.py 54).
AExitFinish(t) ==
    /\ pc[t] = "closing"
    /\ NoOtherUnwinding(t)
    /\ sessions' = CloseDone(sessions, call[t].closing)
    /\ session' = __aexit__end(session)
    /\ scope' = [scope EXCEPT ![t] = FALSE]
    /\ pc' = [pc EXCEPT ![t] = "idle"]
    /\ call' = [call EXCEPT ![t] = NoCall]
    /\ last' = [Ev(t, "__aexit__") EXCEPT
          !.held = __aexit__end(session),
          !.closed = call[t].closing,
          !.scoped = call[t].scoped,
          !.exc_in = call[t].exc,
          !.propagated = AsyncWithRaises(call[t].exc, __aexit__returns)]
    /\ UNCHANGED <<io, files>>
    /\ UNCHANGED <<api_key, base_url, now, local_offset, model, pending>>

\* The caller constructs a request model (models.py 155-178).  A failed
\* construction yields no object.
Construct(t, cls, name, expires_at, caught) ==
    /\ Ready(t)
    /\ LET err == IF cls = "ApiKeyCreate"
                  THEN ApiKeyCreate(name, expires_at)
                  ELSE ApiKeyUpdate(name, expires_at)
       IN  /\ model' = IF err = NoErr
                       THEN NewModel(cls, name, expires_at) ELSE NoModel
           /\ last' = [Ev(t, cls) EXCEPT !.name = name,
                                         !.expires_at = expires_at,
                                         !.err = err]
           /\ pending' = [pending EXCEPT ![t] = Uncaught(t, err, caught)]
    /\ UNCHANGED <<io, files>>
    /\ UNCHANGED <<api_key, base_url, session, sessions, now, local_offset,
                   pc, call, scope>>

\* An API-key endpoint is called (api_key.py 36-131): it hands its request
\* to _request, which awaits the response.  The caller passes the model it
\* built and keeps no reference to it.
CallApiKey(t, op, key_name) ==
    /\ Ready(t)
    /\ CanCreate
    /\ ModelFits(op, model)
    /\ LET a == ApiKeyRequest(op, key_name, model)
           r == _request(session, sessions, api_key, base_url, a.method,
                         a.endpoint, a.json, a.body, NoParams)
       IN  /\ session' = r.session
           /\ sessions' = r.sessions
           /\ call' = [call EXCEPT ![t] =
                 [NoCall EXCEPT !.op = op, !.via = "_request",
                                !.req = r.req, !.ndisp = 1]]
    /\ pc' = [pc EXCEPT ![t] = "sent"]
    /\ model' = NoModel
    /\ last' = NoEv
    /\ UNCHANGED <<io, files>>
    /\ UNCHANGED <<api_key, base_url, now, local_offset, scope, pending>>

\* A date-ranged endpoint is called (usage.py 29-92, billing.py 22-64): the
\* dates are checked, then the request goes to the public pipeline.
CallDated(t, op, start_date, end_date, caught) ==
    /\ Ready(t)
    /\ CanCreate
    /\ model = NoModel
    /\ LET err == DateCheck(op, start_date, end_date)
           r == request(session, sessions, api_key, base_url, "GET",
                        [path |-> DatedPath(op), name |-> FillerName],
                        DateParams(start_date, end_date))
       IN  IF err # NoErr
           THEN /\ last' = [Ev(t, op) EXCEPT !.start_date = start_date,
                                             !.end_date = end_date,
                                             !.err = err]
                /\ pending' = [pending EXCEPT ![t] = Uncaught(t, err, caught)]
                /\ UNCHANGED <<session, sessions, call, pc>>
           ELSE /\ session' = r.session
                /\ sessions' = r.sessions
                /\ call' = [call EXCEPT ![t] =
                      [NoCall EXCEPT !.op = op, !.via = "request",
                                     !.req = r.req, !.ndisp = 1,
                                     !.start_date = start_date,
                                     !.end_date = end_date]]
                /\ pc' = [pc EXCEPT ![t] = "sent"]
                /\ last' = NoEv
                /\ UNCHANGED pending
    /\ UNCHANGED <<io, files>>
    /\ UNCHANGED <<api_key, base_url, now, local_offset, model, scope>>

\* A faulty variant of the step below: a failed request drops the session
\* handle.
Mutant_Respond(t, resp, caught) ==
    /\ pc[t] = "sent"
    /\ NoOtherUnwinding(t)
    /\ LET r == IF call[t].via = "_request"
                THEN _request_response(resp) ELSE request_response(resp)
           w == IF r.err = NoErr THEN WrapResponse(r.data)
                ELSE [err |-> r.err, ret |-> "none"]
       IN  IF call[t].via = "_request" /\ _request_retries(r.err)
           THEN /\ call' = [call EXCEPT ![t].ndisp = @ + 1]
                /\ last' = NoEv
                /\ UNCHANGED <<pc, pending>>
           ELSE /\ last' = [Ev(t, call[t].op) EXCEPT
                      !.start_date = call[t].start_date,
                      !.end_date = call[t].end_date,
                      !.req = call[t].req,
                      !.ndisp = call[t].ndisp,
                      !.resp = resp,
                      !.err = w.err,
                      !.ret = w.ret,
                      !.held = session]
                /\ pending' = [pending EXCEPT ![t] = Uncaught(t, w.err, caught)]
                /\ pc' = [pc EXCEPT ![t] = "idle"]
                /\ call' = [call EXCEPT ![t] = NoCall]
    /\ UNCHANGED <<io, files>>
    /\ session' = IF _request_response(resp).err # NoErr THEN None
                  ELSE session
    /\ UNCHANGED <<api_key, base_url, sessions, now, local_offset, model,
                   scope>>

\* The response, or the failure of the transport, reaches the awaiting
\* call (sdk.py 85-87), and the endpoint wraps the mapping.
Respond(t, resp, caught) ==
    /\ pc[t] = "sent"
    /\ NoOtherUnwinding(t)
    /\ LET r == IF call[t].via = "_request"
                THEN _request_response(resp) ELSE request_response(resp)
           w == IF r.err = NoErr THEN WrapResponse(r.data)
                ELSE [err |-> r.err, ret |-> "none"]
       IN  IF call[t].via = "_request" /\ _request_retries(r.err)
           THEN /\ call' = [call EXCEPT ![t].ndisp = @ + 1]
                /\ last' = NoEv
                /\ UNCHANGED <<pc, pending>>
           ELSE /\ last' = [Ev(t, call[t].op) EXCEPT
                      !.start_date = call[t].start_date,
                      !.end_date = call[t].end_date,
                      !.req = call[t].req,
                      !.ndisp = call[t].ndisp,
                      !.resp = resp,
                      !.err = w.err,
                      !.ret = w.ret,
                      !.held = session]
                /\ pending' = [pending EXCEPT ![t] = Uncaught(t, w.err, caught)]
                /\ pc' = [pc EXCEPT ![t] = "idle"]
                /\ call' = [call EXCEPT ![t] = NoCall]
    /\ UNCHANGED <<io, files>>
    /\ UNCHANGED <<api_key, base_url, session, sessions, now, local_offset,
                   model, scope>>

\* The steps of the callers in T.
Steps(T) ==
    \/ Tick
    \/ \E t \in T : AEnter(t)
    \/ \E t \in T : AExitBegin(t)
    \/ \E t \in T : AExitFinish(t)
    \/ \E t \in T, a \in CreateArgs, caught \in BOOLEAN :
          Construct(t, "ApiKeyCreate", a[1], a[2], caught)
    \/ \E t \in T, a \in UpdateArgs, caught \in BOOLEAN :
          Construct(t, "ApiKeyUpdate", a[1], a[2], caught)
    \/ \E t \in T, op \in ApiKeyOps, k \in KeyNames : CallApiKey(t, op, k)
    \/ \E t \in T, op \in DatedOps, s \in Dates, e \in Dates,
          caught \in BOOLEAN : CallDated(t, op, s, e, caught)
    \/ \E t \in T, resp \in Responses, caught \in BOOLEAN :
          Respond(t, resp, caught)

\* One caller, which awaits every call to its end before the next.
Next == Steps({1})

Spec == Init /\ [][Next]_vars

\* Callers that overlap their awaits on the one client: entries, exits and
\* requests of every task, interleaved at the awaits.
ConcNext ==
    \/ \E t \in Tasks : AEnter(t)
    \/ \E t \in Tasks : AExitBegin(t)
    \/ \E t \in Tasks : AExitFinish(t)
    \/ \E t \in Tasks, k \in KeyNames : CallApiKey(t, "get_api_key", k)
    \/ \E t \in Tasks, resp \in Responses, caught \in BOOLEAN :
          Respond(t, resp, caught)

ConcSpec == Init /\ [][ConcNext]_vars


(***************************************************************************)
(* The schemas and the deserialization of responses, applied to every      *)
(* argument of the bounded input sets.                                     *)
(***************************************************************************)
NoSchemaCall ==
    [method |-> "", endpoint |-> FillerEndpoint, json |-> FALSE,
     body |-> NoBody]

\* The inputs: the arguments of a schema constructor, the object of a
\* response, the arguments of an echoed create_api_key, the body of a
\* list response.
SchemaInputs ==
    UNION {{[fn |-> "input", op |-> "schema", cls |-> cls, args |-> a,
             key_name |-> k] : a \in SchemaArgs(cls), k \in KeyNames} :
              cls \in RequestSchemas}
    \cup UNION {{[fn |-> "input", op |-> "response", cls |-> cls,
                  data |-> d] : d \in ServerObjects(cls)} :
                   cls \in ResponseModels}
    \cup {[fn |-> "input", op |-> "echo", args |-> a, secret |-> x] :
             a \in SchemaArgs("ApiKeyCreate"), x \in ServerSecrets}
    \cup UNION {{[fn |-> "input", op |-> "list", ep |-> ep, body |-> b] :
                    b \in ListBodies(ep)} : ep \in ListEndpoints}
    \cup {[fn |-> "input", op |-> "params", args |-> a] :
             a \in ParameterArgs}

SchemaInit ==
    /\ \E c \in Constructions : api_key = c.api_key /\ base_url = c.base_url
    /\ session = None
    /\ sessions = <<>>
    /\ now = 0
    /\ local_offset \in LocalOffsets
    /\ model = NoModel
    /\ pc = [t \in Tasks |-> "idle"]
    /\ call = [t \in Tasks |-> NoCall]
    /\ scope = [t \in Tasks |-> FALSE]
    /\ pending = [t \in Tasks |-> NoErr]
    /\ last = NoEv
    /\ io \in SchemaInputs
    /\ files = <<>>

\* A request schema is constructed from the arguments, and the call that
\* takes it builds its request.
BuildSchema ==
    /\ io.fn = "input" /\ io.op = "schema"
    /\ io' = [fn |-> "schema", cls |-> io.cls, args |-> io.args,
              err |-> ConstructSchema(io.cls, io.args),
              call |-> IF ConstructSchema(io.cls, io.args) = NoErr
                       THEN SchemaCall(io.cls, io.key_name, io.args)
                       ELSE NoSchemaCall]
    /\ UNCHANGED <<api_key, base_url, session, sessions, now, local_offset,
                   model, pc, call, scope, pending, last, files>>

\* An endpoint wraps the object of a successful response into its
\* response model; what the wrapping raises leaves the endpoint call.
Deserialize ==
    /\ io.fn = "input" /\ io.op = "response"
    /\ io' = [fn |-> "response", cls |-> io.cls, data |-> io.data,
              err |-> ResponseModel(io.cls, io.data).err,
              ret |-> ResponseModel(io.cls, io.data).ret]
    /\ UNCHANGED <<api_key, base_url, session, sessions, now, local_offset,
                   model, pc, call, scope, pending, last, files>>

\* create_api_key (api_key.py 36-52) with a valid ApiKeyCreate, answered
\* by a server that echoes the fields of the body.
EchoCreateApiKey ==
    /\ io.fn = "input" /\ io.op = "echo"
    /\ ConstructSchema("ApiKeyCreate", io.args) = NoErr
    /\ LET body == ApiKeyCreate_dict(io.args)
           d == EchoApiKey(body, io.secret)
       IN  io' = [fn |-> "echo", cls |-> "ApiKeyWithSecretResponse",
                  args |-> io.args, body |-> body, data |-> d,
                  err |-> ResponseModel("ApiKeyWithSecretResponse", d).err,
                  ret |-> ResponseModel("ApiKeyWithSecretResponse", d).ret]
    /\ UNCHANGED <<api_key, base_url, session, sessions, now, local_offset,
                   model, pc, call, scope, pending, last, files>>

\* A list endpoint wraps the body of a successful response.
WrapList ==
    /\ io.fn = "input" /\ io.op = "list"
    /\ io' = [fn |-> "list", ep |-> io.ep, body |-> io.body,
              ret |-> ListResponse(io.ep, io.body)]
    /\ UNCHANGED <<api_key, base_url, session, sessions, now, local_offset,
                   model, pc, call, scope, pending, last, files>>

\* FineTuningJobParameters is constructed from the arguments.
BuildParameters ==
    /\ io.fn = "input" /\ io.op = "params"
    /\ io' = [fn |-> "params", args |-> io.args,
              err |-> FineTuningJobParameters(io.args.batch_size,
                         io.args.num_epochs, io.args.lr, io.args.seed)]
    /\ UNCHANGED <<api_key, base_url, session, sessions, now, local_offset,
                   model, pc, call, scope, pending, last, files>>

SchemaNext ==
    \/ BuildSchema
    \/ Deserialize
    \/ EchoCreateApiKey
    \/ WrapList
    \/ BuildParameters

SchemaSpec == SchemaInit /\ [][SchemaNext]_vars


(***************************************************************************)
(* Dataset upload and download.                                            *)
(***************************************************************************)
CanOpen == Len(files) < MaxFiles

\* upload_dataset is called (dataset.py 37-66, sdk.py 196-214): the file
\* is opened, the form is built and handed to _request, which awaits the
\* response.
CallUpload(t, variant, path) ==
    /\ Ready(t)
    /\ CanCreate
    /\ CanOpen
    /\ LET o == open(files, path, "rb")
           r == _request(session, sessions, api_key, base_url, "POST",
                         [path |-> "/datasets", name |-> FillerName],
                         FALSE, NoBody, NoParams)
       IN  IF o.err # NoErr
           THEN /\ last' = [Ev(t, "upload_dataset") EXCEPT
                      !.path = path,
                      !.err = IF variant = "DatasetEndpoint"
                              THEN upload_dataset_except(o.err) ELSE o.err]
                /\ UNCHANGED <<session, sessions, files, pc, call>>
           ELSE /\ files' = o.files
                /\ session' = r.session
                /\ sessions' = r.sessions
                /\ call' = [call EXCEPT ![t] =
                      [NoCall EXCEPT !.op = "upload_dataset",
                                     !.via = variant,
                                     !.req = r.req, !.ndisp = 1,
                                     !.path = path, !.file = o.file]]
                /\ pc' = [pc EXCEPT ![t] = "sent"]
                /\ last' = NoEv
    /\ UNCHANGED <<api_key, base_url, now, local_offset, model, scope,
                   pending, io>>

\* The response to the upload arrives, or the transport fails: the
\* endpoint wraps the mapping, and the call is over.
RespondUpload(t, resp, fin) ==
    /\ pc[t] = "sent"
    /\ call[t].op = "upload_dataset"
    /\ LET r == _request_response(resp)
           w == IF r.err = NoErr THEN WrapResponse(r.data)
                ELSE [err |-> r.err, ret |-> "none"]
       IN  last' = [Ev(t, "upload_dataset") EXCEPT
                      !.req = call[t].req, !.ndisp = call[t].ndisp,
                      !.resp = resp,
                      !.err = IF call[t].via = "DatasetEndpoint"
                              THEN upload_dataset_except(w.err) ELSE w.err,
                      !.ret = w.ret,
                      !.held = session,
                      !.path = call[t].path, !.file = call[t].file]
    /\ files' = upload_dataset_exit(call[t].via, files, call[t].file, fin)
    /\ pc' = [pc EXCEPT ![t] = "idle"]
    /\ call' = [call EXCEPT ![t] = NoCall]
    /\ UNCHANGED <<api_key, base_url, session, sessions, now, local_offset,
                   model, scope, pending, io>>

\* download_dataset is called (dataset.py 143-156): _request ensures the
\* session and calls session.request with the keyword `stream`.
CallDownload(t, key_name, output_path, kw) ==
    /\ Ready(t)
    /\ CanCreate
    /\ CanOpen
    /\ LET r == _request(session, sessions, api_key, base_url, "GET",
                         [path |-> "/datasets/download", name |-> key_name],
                         FALSE, NoBody, NoParams)
       IN  /\ session' = r.session
           /\ sessions' = r.sessions
           /\ IF kw = "rejected"
              THEN /\ last' = [Ev(t, "download_dataset") EXCEPT
                         !.path = output_path,
                         !.err = Raise("TypeError", 0, "stream"),
                         !.held = r.session]
                   /\ UNCHANGED <<pc, call>>
              ELSE /\ call' = [call EXCEPT ![t] =
                         [NoCall EXCEPT !.op = "download_dataset",
                                        !.via = "_request",
                                        !.req = r.req, !.ndisp = 1,
                                        !.path = output_path]]
                   /\ pc' = [pc EXCEPT ![t] = "sent"]
                   /\ last' = NoEv
    /\ UNCHANGED <<api_key, base_url, now, local_offset, model, scope,
                   pending, io, files>>

\* The response to the download arrives: _request reads the whole body
\* with response.json() and releases the response on leaving its
\* `async with` (sdk.py 85-87); what it returns goes to the writing loop.
RespondDownload(t, resp) ==
    /\ pc[t] = "sent"
    /\ call[t].op = "download_dataset"
    /\ LET r == _request_response(resp)
           d == download_dataset_write(files, call[t].path)
       IN  IF r.err # NoErr
           THEN /\ last' = [Ev(t, "download_dataset") EXCEPT
                      !.req = call[t].req, !.ndisp = call[t].ndisp,
                      !.resp = resp, !.err = r.err, !.held = session,
                      !.path = call[t].path]
                /\ UNCHANGED files
           ELSE /\ last' = [Ev(t, "download_dataset") EXCEPT
                      !.req = call[t].req, !.ndisp = call[t].ndisp,
                      !.resp = resp, !.err = d.err, !.held = session,
                      !.path = call[t].path, !.file = d.file]
                /\ files' = d.files
    /\ pc' = [pc EXCEPT ![t] = "idle"]
    /\ call' = [call EXCEPT ![t] = NoCall]
    /\ UNCHANGED <<api_key, base_url, session, sessions, now, local_offset,
                   model, scope, pending, io>>

FileNext ==
    \/ \E variant \in UploadVariants, path \in Paths :
          CallUpload(1, variant, path)
    \/ \E resp \in Responses, fin \in Finalizations :
          RespondUpload(1, resp, fin)
    \/ \E k \in KeyNames, path \in Paths, kw \in StreamKeyword :
          CallDownload(1, k, path, kw)
    \/ \E resp \in Responses : RespondDownload(1, resp)

FileSpec == Init /\ [][FileNext]_vars


(***************************************************************************)
(* The delete calls (dataset.py 130-141, fine_tuning.py 113-124).          *)
(***************************************************************************)
DeleteOps == {"delete_dataset", "delete_fine_tuning_job"}

\* dataset.py 141, fine_tuning.py 124: the path each call requests.
DeletePath(op) ==
    CASE op = "delete_dataset" -> "/datasets/"
      [] OTHER -> "/fine-tuning/"

\* What a server answers to a DELETE: the responses of every call, and the
\* successes that carry no content.
SuccessStatuses == {200, 204}
DeleteResponses ==
    Responses
    \cup {[failure |-> FALSE, status |-> st, reason |-> ReasonPhrase(st),
           body |-> b] : st \in SuccessStatuses, b \in NoContentBodies}

\* The two delete methods end after `await self._sdk._request(...)` with no
\* return statement: the mapping _request returned is dropped.
delete_return(data) == "none"

\* A delete call hands its request to _request, which awaits the response.
CallDelete(t, op, name) ==
    /\ Ready(t)
    /\ CanCreate
    /\ LET r == _request(session, sessions, api_key, base_url, "DELETE",
                         [path |-> DeletePath(op), name |-> name],
                         FALSE, NoBody, NoParams)
       IN  /\ session' = r.session
           /\ sessions' = r.sessions
           /\ call' = [call EXCEPT ![t] =
                 [NoCall EXCEPT !.op = op, !.via = "_request",
                                !.req = r.req, !.ndisp = 1]]
    /\ pc' = [pc EXCEPT ![t] = "sent"]
    /\ last' = NoEv
    /\ UNCHANGED <<api_key, base_url, now, local_offset, model, scope,
                   pending, io, files>>

\* The response to the DELETE arrives, or the transport fails: what
\* _request raises leaves the delete call, what it returns is dropped.
RespondDelete(t, resp, caught) ==
    /\ pc[t] = "sent"
    /\ call[t].op \in DeleteOps
    /\ LET r == _request_response(resp)
       IN  /\ last' = [Ev(t, call[t].op) EXCEPT
                         !.req = call[t].req, !.ndisp = call[t].ndisp,
                         !.resp = resp, !.err = r.err,
                         !.ret = delete_return(r.data),
                         !.held = session]
           /\ pending' = [pending EXCEPT ![t] = Uncaught(t, r.err, caught)]
    /\ pc' = [pc EXCEPT ![t] = "idle"]
    /\ call' = [call EXCEPT ![t] = NoCall]
    /\ UNCHANGED <<api_key, base_url, session, sessions, now, local_offset,
                   model, scope, io, files>>

\* One caller that deletes, inside or outside `async with sdk`.
DeleteNext ==
    \/ AEnter(1)
    \/ AExitBegin(1)
    \/ AExitFinish(1)
    \/ \E op \in DeleteOps, k \in KeyNames : CallDelete(1, op, k)
    \/ \E resp \in DeleteResponses, caught \in BOOLEAN :
          RespondDelete(1, resp, caught)

DeleteSpec == Init /\ [][DeleteNext]_vars


(***************************************************************************)
(* A model that is kept while the clock runs past its expiry.              *)
(***************************************************************************)
\* The clock advances, up to one tick past the latest instant a model can
\* be built for at the start.
TickLate ==
    /\ now <= MaxClock
    /\ now' = now + 1
    /\ last' = NoEv
    /\ UNCHANGED <<api_key, base_url, session, sessions, local_offset, model,
                   pc, call, scope, pending, io, files>>

\* One caller that builds request models and makes the API-key calls
\* while time passes.
ExpiryNext ==
    \/ TickLate
    \/ \E a \in CreateArgs, caught \in BOOLEAN :
          Construct(1, "ApiKeyCreate", a[1], a[2], caught)
    \/ \E a \in UpdateArgs, caught \in BOOLEAN :
          Construct(1, "ApiKeyUpdate", a[1], a[2], caught)
    \/ \E op \in ApiKeyOps, k \in KeyNames : CallApiKey(1, op, k)
    \/ \E resp \in Responses, caught \in BOOLEAN : Respond(1, resp, caught)

ExpirySpec == Init /\ [][ExpiryNext]_vars


(***************************************************************************)
(* Properties.                                                             *)
(***************************************************************************)
SessionIds == 1..Len(sessions)
ApiKeyEvents == ApiKeyOps
CallEvents == ApiKeyOps \cup DatedOps
ConstructEvents == {"ApiKeyCreate", "ApiKeyUpdate"}

\* The instant a datetime denotes, counted on the UTC clock.
Instant(v) ==
    v.wall - (IF v.tz = "utc" THEN 0
              ELSE IF v.tz = "plus1" THEN 1 ELSE local_offset)

\* The message the spec puts in the server error for a failed response.
ServerMessage(resp) ==
    IF BodyIsJson(resp.body) /\ BodyHasMessage(resp.body)
    THEN BodyMessage(resp.body) ELSE BodyText(resp.body)

C1_Inv ==
    /\ Cardinality({i \in SessionIds : sessions[i].state # "closed"}) <= 1
    /\ \A i \in SessionIds : sessions[i].state # "closed" => session = i

C1_Step ==
    /\ Len(sessions') > Len(sessions) =>
          /\ session = None
          /\ Len(sessions') = Len(sessions) + 1
          /\ session' = Len(sessions')
    /\ \A t \in Tasks :
          (pc[t] # "sent" /\ pc'[t] = "sent" /\ session # None) =>
             /\ call'[t].req.session = session
             /\ session' = session
             /\ sessions' = sessions

\* C1: calls made one after another leave at most one session open at any
\* time; a session is created only while none is held, and a request
\* issued while one is held goes over that session and creates none.
C1_SingleSession == [] C1_Inv /\ [][C1_Step]_vars

\* C1 witness: after a first session was closed, a request is in flight
\* over the second one, which is the session held.
C1_Witness ==
    /\ Len(sessions) = 2
    /\ sessions[1].state = "closed"
    /\ session = 2
    /\ \E t \in Tasks : pc[t] = "sent" /\ call[t].req.session = 2 /\ scope[t]

\* C2: every session is closed exactly once: the one held has not been
\* closed unless its close is being awaited, every other has been closed
\* once, and an __aexit__ that completes leaves no handle.
C2_ClosedExactlyOnce ==
    /\ \A i \in SessionIds :
          IF i = session
          THEN sessions[i].closes =
                  (IF \E t \in Tasks : pc[t] = "closing" /\ call[t].closing = i
                   THEN 1 ELSE 0)
          ELSE sessions[i].closes = 1 /\ sessions[i].state = "closed"
    /\ last.op = "__aexit__" =>
          /\ session = None
          /\ last.closed # None => sessions[last.closed].closes = 1

\* C2 witness: an __aexit__ completed while no session was held, after an
\* earlier one had closed a session.
C2_Witness ==
    /\ last.op = "__aexit__"
    /\ last.closed = None
    /\ Len(sessions) = 1
    /\ sessions[1].closes = 1

\* C3: when the body of `async with sdk` is left, by its end or by an
\* exception, no session stays open or held, and the exception that left
\* the body is the one the caller receives.
C3_ScopeExitCloses ==
    (last.op = "__aexit__" /\ last.scoped) =>
       /\ session = None
       /\ \A i \in SessionIds : sessions[i].state = "closed"
       /\ last.propagated = last.exc_in

\* C3 witness: a scope left by a client validation error closed its
\* session, and the error reached the caller.
C3_Witness ==
    /\ last.op = "__aexit__"
    /\ last.scoped
    /\ last.closed # None
    /\ last.exc_in.kind = "LuminoClientError"
    /\ last.propagated = last.exc_in

\* C4: a response with a status >= 400 makes the call fail with the SDK's
\* server error, carrying the status and the message of the body (its
\* `message` field, else the raw text), and returns no model.
C4_ServerErrorFromBody ==
    (last.op \in CallEvents /\ ~ last.resp.failure /\ last.resp.status >= 400) =>
       /\ last.err.kind \in SdkServerErrors
       /\ last.err.status = last.resp.status
       /\ last.err.message = ServerMessage(last.resp)
       /\ last.ret = "none"

\* C5: a failure of the transport, or a body that is not JSON, reaches the
\* caller as the SDK's server error, never as an exception of aiohttp.
C5_TransportAsServerError ==
    (last.op \in CallEvents
     /\ (last.resp.failure
         \/ (last.resp.status = 200 /\ ~ BodyIsJson(last.resp.body)))) =>
       /\ last.err.kind \in SdkServerErrors
       /\ last.err.kind \notin AiohttpErrors

\* C6: constructing ApiKeyCreate or ApiKeyUpdate with an expires_at whose
\* instant is at or before the current time fails with the client
\* validation error, yields no model and lets no API-key request go out;
\* with an instant after the current time (and a valid name) it succeeds.
C6_ExpiryMustBeFuture ==
    (last.op \in ConstructEvents /\ last.expires_at.st = "val") =>
       /\ Instant(last.expires_at.v) <= now =>
             /\ last.err.kind = "LuminoClientError"
             /\ model = NoModel
             /\ \A t \in Tasks : pc[t] # "sent"
             /\ \A t \in Tasks, k \in KeyNames :
                   /\ ~ ENABLED CallApiKey(t, "create_api_key", k)
                   /\ ~ ENABLED CallApiKey(t, "update_api_key", k)
       /\ (Instant(last.expires_at.v) > now
           /\ (last.name.st = "val" => NameField(last.name.v))) =>
             /\ last.err = NoErr
             /\ model = [cls |-> last.op, name |-> last.name,
                         expires_at |-> last.expires_at]

\* C6 witness: an expires_at given with offset +1 that denotes exactly the
\* current instant was refused.
C6_Witness ==
    /\ last.op = "ApiKeyUpdate"
    /\ last.expires_at.st = "val"
    /\ last.expires_at.v.tz = "plus1"
    /\ last.expires_at.v.wall - 1 = now
    /\ last.err.kind = "LuminoClientError"

\* C7: a date-ranged call with end_date < start_date fails without any
\* request; with end_date >= start_date, equal dates included, it sends
\* exactly one request.
C7_DateRangeGuard ==
    /\ last.op \in DatedOps =>
          IF last.end_date < last.start_date
          THEN last.err # NoErr /\ last.ndisp = 0 /\ last.req = NoReq
          ELSE last.ndisp = 1 /\ last.req # NoReq
    /\ \A t \in Tasks :
          (pc[t] = "sent" /\ call[t].op \in DatedOps) =>
             /\ call[t].end_date >= call[t].start_date
             /\ call[t].ndisp = 1
             /\ call[t].req.params =
                   DateParams(call[t].start_date, call[t].end_date)

\* C7 witness: get_total_cost with equal dates completed after one request.
C7_Witness ==
    /\ last.op = "get_total_cost"
    /\ last.start_date = last.end_date
    /\ last.ndisp = 1
    /\ last.resp.status = 200

\* C8 as claimed: all three date-ranged calls report end_date < start_date
\* as the client validation error, with the message about end_date.
C8_AllClientValidationError ==
    (last.op \in DatedOps /\ last.end_date < last.start_date) =>
       /\ last.err.kind = "LuminoClientError"
       /\ last.err.message = DateMessage

\* C8 amended: all three calls report end_date < start_date with the
\* message about end_date; get_credit_history raises the client validation
\* error, get_total_cost and list_usage_records raise ValueError.
C8_DateErrorKinds ==
    (last.op \in DatedOps /\ last.end_date < last.start_date) =>
       /\ last.err.message = DateMessage
       /\ last.err.kind = (IF last.op = "get_credit_history"
                           THEN "LuminoClientError" ELSE "ValueError")

\* C8 witness: list_usage_records refused a reversed range with ValueError.
C8_Witness ==
    /\ last.op = "list_usage_records"
    /\ last.end_date < last.start_date
    /\ last.err.kind = "ValueError"
    /\ last.err.message = DateMessage

\* C9: every request sent carries X-API-Key equal to the client's api_key.
C9_ApiKeyHeader ==
    /\ \A t \in Tasks : pc[t] = "sent" => call[t].req.headers.XApiKey = api_key
    /\ last.ndisp > 0 => last.req.headers.XApiKey = api_key

\* C9 witness: a request is in flight over a session that _ensure_session
\* created, outside any scope, with the key given at construction.
C9_Witness ==
    \E t \in Tasks :
       /\ pc[t] = "sent"
       /\ ~ scope[t]
       /\ Len(sessions) = 1
       /\ call[t].req.headers.XApiKey = "other-api-key"
       /\ call[t].req.headers.ContentType = "application/json"

\* C10: a call sends at most one request; after a failed response or a
\* failure of the transport it has sent exactly one, it is over, and the
\* caller has the failure.
C10_NoRetry ==
    /\ \A t \in Tasks : call[t].ndisp <= 1
    /\ last.ndisp <= 1
    /\ (last.op \in CallEvents
        /\ (last.resp.failure \/ last.resp.status >= 400)) =>
          /\ last.ndisp = 1
          /\ last.err # NoErr
          /\ last.ret = "none"
          /\ pc[last.task] = "idle"

\* C10 witness: a call whose transport failed ended after one request with
\* the failure.
C10_Witness ==
    /\ last.op \in ApiKeyOps
    /\ last.resp.failure
    /\ last.ndisp = 1
    /\ last.err.kind = "aiohttp.ClientConnectionError"

(***************************************************************************)
(* Properties of the schemas and of the bodies sent (SchemaSpec).          *)
(***************************************************************************)
\* The fields of a construction other than name satisfy their schema.
OthersValid(cls, a) ==
    /\ "expires_at" \in SchemaFields(cls) =>
          \/ cls = "ApiKeyUpdate" /\ a.expires_at.st = "unset"
          \/ a.expires_at.st = "val" /\ Instant(a.expires_at.v) > now
    /\ a.description.st = "val" =>
          Len(a.description.v) <= DescriptionMaxLength

\* C11: the body an update call sends has exactly the keys the caller
\* passed to the constructor of ApiKeyUpdate, DatasetUpdate or UserUpdate;
\* with only `name` passed there is no other key, and with nothing passed
\* the update is accepted and an empty object is sent.
C11_UpdateBodyKeys ==
    (io.fn = "schema" /\ io.cls \in UpdateSchemas) =>
       /\ io.err = NoErr =>
             /\ io.call.method = "PATCH"
             /\ io.call.json
             /\ io.call.body.keys = FieldsSet(io.cls, io.args)
       /\ (io.err = NoErr /\ FieldsSet(io.cls, io.args) = {"name"}) =>
             io.call.body.keys \cap {"expires_at", "description"} = {}
       /\ FieldsSet(io.cls, io.args) = {} =>
             /\ io.err = NoErr
             /\ io.call.json
             /\ io.call.body.keys = {}

\* C11 witness: an ApiKeyUpdate with only a name was sent with the one key.
C11_Witness ==
    /\ io.fn = "schema"
    /\ io.cls = "ApiKeyUpdate"
    /\ io.args.name = Val(<<"k", "-", "1">>)
    /\ io.args.expires_at.st = "unset"
    /\ io.err = NoErr
    /\ io.call.body.keys = {"name"}

\* C12: every datetime in a body sent, expires_at of ApiKeyCreate and of
\* ApiKeyUpdate alike, is the wall-clock time followed by a literal Z.
C12_DatetimesRenderedZ ==
    (io.fn = "schema"
     /\ io.cls \in {"ApiKeyCreate", "ApiKeyUpdate"}
     /\ io.err = NoErr
     /\ "expires_at" \in io.call.body.keys
     /\ io.args.expires_at.st = "val") =>
       io.call.body.expires_at =
          [wall |-> io.args.expires_at.v.wall, suffix |-> "Z"]

C14_ListResponse ==
    io.fn = "list" =>
       /\ Len(io.ret.data) = Len(io.body.data)
       /\ \A i \in 1..Len(io.body.data) :
             /\ io.ret.data[i].cls = ItemModel(io.ep)
             /\ io.ret.data[i].name = io.body.data[i].name
       /\ io.ret.pagination = io.body.pagination
       /\ io.body.data = <<>> => io.ret.data = <<>>

\* C14 witness: a list of two different items came back in the server's
\* order, with total_pages 2.
C14_Witness ==
    /\ io.fn = "list"
    /\ io.ep = "list_fine_tuning_jobs"
    /\ Len(io.body.data) = 2
    /\ io.ret.data[1].name = <<"b">>
    /\ io.ret.data[2].name = <<"a">>
    /\ io.ret.pagination.total_pages = 2

\* The object has every required field, and a timestamp where one is due.
WellFormed(cls, d) ==
    /\ d.absent = {}
    /\ "expires_at" \in PlainFields(cls) => d.expires_at # NullWire

\* C15: in every response model, a value of an enum field that is the
\* value of a member becomes that member, and a value outside the
\* enumeration makes the wrapping, and so the endpoint call, fail.
C15_EnumFidelity ==
    io.fn = "response" =>
       /\ (/\ WellFormed(io.cls, io.data)
           /\ \A f \in EnumFields(io.cls) :
                 io.data.enums[f] \in EnumMembers(EnumOf(io.cls, f))) =>
             /\ io.err = NoErr
             /\ \A f \in EnumFields(io.cls) :
                   io.ret.enums[f] = [enum |-> EnumOf(io.cls, f),
                                      member |-> io.data.enums[f]]
       /\ (\E f \in EnumFields(io.cls) :
              io.data.enums[f] \notin EnumMembers(EnumOf(io.cls, f))) =>
             /\ io.err # NoErr
             /\ io.ret = NoRet

\* C15 witness: an API key whose status is a member of another
\* enumeration was refused.
C15_Witness ==
    /\ io.fn = "response"
    /\ io.cls = "ApiKeyResponse"
    /\ io.data.enums["status"] = "DELETED"
    /\ io.data.absent = {}
    /\ io.err.kind = "pydantic.ValidationError"

\* C16: from a response with every required field, create_api_key returns
\* an ApiKeyWithSecretResponse with the server's name and secret and the
\* ApiKeyStatus member of the server's status.
C16_CreateApiKeyResult ==
    (/\ io.fn = "response"
     /\ io.cls = "ApiKeyWithSecretResponse"
     /\ WellFormed(io.cls, io.data)
     /\ io.data.enums["status"] \in EnumMembers("ApiKeyStatus")) =>
       /\ io.err = NoErr
       /\ io.ret.cls = "ApiKeyWithSecretResponse"
       /\ io.ret.name = io.data.name
       /\ io.ret.secret = io.data.secret
       /\ io.ret.enums["status"] =
             [enum |-> "ApiKeyStatus", member |-> io.data.enums["status"]]

\* C16 witness: a revoked key with a name outside NameField came back
\* with its secret.
C16_Witness ==
    /\ io.fn = "response"
    /\ io.cls = "ApiKeyWithSecretResponse"
    /\ io.data.enums["status"] = "REVOKED"
    /\ io.data.name = <<"T", "e", "s", "t">>
    /\ io.err = NoErr
    /\ io.ret.secret = <<"s", "e", "c">>

(***************************************************************************)
(* Properties of the dataset upload and download (FileSpec).               *)
(***************************************************************************)
\* C18: the file upload_dataset opened is open as long as the upload is
\* awaited and closed once the call is over, whether it ended with a
\* model, a server error or a failure of the transport.
C18_UploadFileClosed ==
    /\ \A t \in Tasks :
          (pc[t] = "sent" /\ call[t].op = "upload_dataset") =>
             files[call[t].file].state = "open"
    /\ (last.op = "upload_dataset" /\ last.file # None) =>
          files[last.file].state = "closed"

\* C19: upload_dataset with a path that does not exist ends with the
\* FileNotFoundError of open, has sent no request, and has opened nothing.
C19_FileNotFound ==
    /\ (last.op = "upload_dataset" /\ last.path \notin ExistingPaths) =>
          /\ last.err = Raise("FileNotFoundError", 0, last.path)
          /\ last.ndisp = 0
          /\ last.req = NoReq
          /\ last.file = None
    /\ \A t \in Tasks :
          (pc[t] = "sent" /\ call[t].op = "upload_dataset") =>
             call[t].path \in ExistingPaths

\* C19 witness: the first call of a client was an upload of a missing
\* file; it failed with FileNotFoundError and not even a session exists.
C19_Witness ==
    /\ last.op = "upload_dataset"
    /\ last.path = "missing.jsonl"
    /\ last.err.kind = "FileNotFoundError"
    /\ last.ndisp = 0
    /\ sessions = <<>>

\* C20: a download answered with a 200 ends without error, and the file
\* at output_path holds the chunks of the body in the order of arrival.
C20_DownloadChunks ==
    (/\ last.op = "download_dataset"
     /\ last.ndisp = 1
     /\ ~ last.resp.failure
     /\ last.resp.status = 200) =>
       /\ last.err = NoErr
       /\ last.file # None
       /\ files[last.file].path = last.path
       /\ files[last.file].written = BodyChunks(last.resp.body)

(***************************************************************************)
(* Properties of the delete calls (DeleteSpec).                            *)
(***************************************************************************)
\* C21: delete_dataset and delete_fine_tuning_job end without error and
\* return nothing for every response with a success status whose body is
\* a JSON document or is missing, with or without a Content-Type.
C21_DeleteReturnsNone ==
    (/\ last.op \in DeleteOps
     /\ last.ndisp = 1
     /\ ~ last.resp.failure
     /\ last.resp.status < 400
     /\ last.resp.body # "text") =>
       /\ last.err = NoErr
       /\ last.ret = "none"

(***************************************************************************)
(* Properties of the client's attributes and of its session over time.     *)
(***************************************************************************)
C22_Inv ==
    /\ \A i \in SessionIds : sessions[i].headers.XApiKey = api_key
    /\ \A t \in Tasks : pc[t] = "sent" => call[t].req.base = base_url

C22_Step == api_key' = api_key /\ base_url' = base_url

\* C22: no step of the client (entering, exiting, a request, an endpoint
\* call, its response) changes api_key or base_url: of the attributes of
\* the client only the session handle changes, and every session and every
\* request carries the values given at construction.
C22_CredentialFrame == [] C22_Inv /\ [][C22_Step]_vars

\* C22 witness: a client built with the default base_url has created and
\* closed two sessions, and holds the key it was given.
C22_Witness ==
    /\ last.op = "__aexit__"
    /\ last.closed = 2
    /\ session = None
    /\ sessions[1].headers.XApiKey = "other-api-key"
    /\ api_key = "other-api-key"
    /\ base_url = DefaultBaseUrl

(***************************************************************************)
(* Properties of FineTuningJobParameters (SchemaSpec).                     *)
(***************************************************************************)
\* The number is one of the integers lo..hi.
IntegerIn(n, lo, hi) == \E k \in lo..hi : n = k * Unit

\* C23: FineTuningJobParameters is constructed exactly when each of
\* batch_size, num_epochs and lr is left to its default or given in range
\* (an integer in 1..8, an integer in 1..10, a number in (0, 1]) and seed
\* is absent, None or an integer >= 0; otherwise pydantic's
\* ValidationError is raised.
C23_ParameterRanges ==
    io.fn = "params" =>
       LET a == io.args
           inRange ==
              /\ \/ a.batch_size.st = "unset"
                 \/ a.batch_size.st = "val" /\ IntegerIn(a.batch_size.v, 1, 8)
              /\ \/ a.num_epochs.st = "unset"
                 \/ a.num_epochs.st = "val" /\ IntegerIn(a.num_epochs.v, 1, 10)
              /\ \/ a.lr.st = "unset"
                 \/ a.lr.st = "val" /\ a.lr.v > 0 /\ a.lr.v <= Unit
              /\ \/ a.seed.st # "val"
                 \/ IntegerIn(a.seed.v, 0, 1)
       IN  /\ inRange <=> io.err = NoErr
           /\ ~ inRange => io.err.kind = "pydantic.ValidationError"

\* C23 witness: batch_size 9 was refused though every other argument was in
\* range, lr being exactly 1.
C23_Witness ==
    /\ io.fn = "params"
    /\ io.args.batch_size = Val(Num(9))
    /\ io.args.num_epochs = Val(Num(10))
    /\ io.args.lr = Val(Num(1))
    /\ io.args.seed = Val(Num(0))
    /\ io.err.kind = "pydantic.ValidationError"

(***************************************************************************)
(* Properties of explicit None and of time zones in the bodies sent        *)
(* (SchemaSpec).                                                           *)
(***************************************************************************)
\* C24: ApiKeyUpdate with expires_at passed as None (and a name that is
\* valid or not passed) is constructed, and the body update_api_key sends
\* has the key expires_at with the value null.
C24_ExplicitNull ==
    (/\ io.fn = "schema"
     /\ io.cls = "ApiKeyUpdate"
     /\ io.args.expires_at.st = "null"
     /\ io.args.name.st = "val" => NameField(io.args.name.v)
     /\ io.args.name.st # "null") =>
       /\ io.err = NoErr
       /\ "expires_at" \in io.call.body.keys
       /\ io.call.body.expires_at = NullWire

\* C30: the timestamp ApiKeyCreate puts on the wire for an expires_at
\* given with the offset +01:00 denotes, read back as the UTC time its Z
\* announces, the instant of the value the caller passed.
C30_WireInstant ==
    (/\ io.fn = "schema"
     /\ io.cls = "ApiKeyCreate"
     /\ io.err = NoErr
     /\ io.args.expires_at.v.tz = "plus1") =>
       /\ io.call.body.expires_at.suffix = "Z"
       /\ Instant(datetime_validate(io.call.body.expires_at).v) =
             Instant(io.args.expires_at.v)

(***************************************************************************)
(* Properties of overlapping callers (ConcSpec).                           *)
(***************************************************************************)
C25_Step ==
    \A t \in Tasks :
       (pc[t] # "sent" /\ pc'[t] = "sent") =>
          sessions'[call'[t].req.session].state = "open"

\* C25: whatever the interleaving of requests and __aexit__ on the one
\* client, a request is handed only to a session that is open: never to
\* one that is closed or whose close() is being awaited.
C25_NoDispatchOnClosing == [][C25_Step]_vars

C26_Inv ==
    (\A i \in SessionIds : sessions[i].closes = 0) =>
       /\ Len(sessions) <= 1
       /\ \A t \in Tasks : pc[t] = "sent" =>
             /\ session = 1
             /\ call[t].req.session = 1
             /\ sessions[1].state = "open"

C26_Step ==
    Len(sessions') > Len(sessions) =>
       /\ session = None
       /\ Len(sessions') = Len(sessions) + 1

\* C26: as long as no __aexit__ has run, requests that overlap share one
\* session: the first creates it, the second finds the handle set and
\* creates none, and both are sent over it; a step creates at most one
\* session, and only while none is held.
C26_OneSessionForTwo == [] C26_Inv /\ [][C26_Step]_vars

\* C26 witness: two requests are in flight at once, both outside any
\* scope, over the one session _ensure_session created.
C26_Witness ==
    /\ pc[1] = "sent" /\ pc[2] = "sent"
    /\ ~ scope[1] /\ ~ scope[2]
    /\ Len(sessions) = 1
    /\ sessions[1].closes = 0
    /\ call[1].req.session = 1 /\ call[2].req.session = 1

(***************************************************************************)
(* Properties of the session across exits and failures (Spec).             *)
(***************************************************************************)
C27_Inv ==
    /\ \A t \in Tasks : pc[t] = "sent" =>
          /\ call[t].req.session # None
          /\ call[t].req.session = session
          /\ sessions[session].state = "open"
    /\ (last.op \in CallEvents /\ last.ndisp = 1) =>
          /\ session = last.req.session
          /\ sessions[session].state = "open"

C27_Step ==
    /\ \A i \in SessionIds :
          (sessions[i].state = "open" /\ sessions'[i].state # "open") =>
             \E t \in Tasks :
                /\ pc[t] = "idle" /\ pc'[t] = "closing"
                /\ call'[t].op = "__aexit__"
                /\ call'[t].closing = i
    /\ (session # None /\ session' # session) =>
          /\ session' = None
          /\ \E t \in Tasks : pc[t] = "closing" /\ pc'[t] = "idle"
    /\ \A t \in Tasks :
          (pc[t] = "idle" /\ pc'[t] = "sent" /\ session = None) =>
             /\ Len(sessions') = Len(sessions) + 1
             /\ session' = Len(sessions')
             /\ call'[t].req.session = session'

\* C27: a request made while no session is held, after an __aexit__ as
\* well as at the start, creates a session and goes over it; a session
\* stays open, and stays the one held, until an __aexit__ closes it, so
\* every request is sent over an open session and finds it open when it
\* ends.
C27_SessionAfterExit == [] C27_Inv /\ [][C27_Step]_vars

\* C27 witness: after an __aexit__ closed the first session, a request
\* outside any scope created the second, ended, and the session is open.
C27_Witness ==
    /\ last.op = "get_api_key"
    /\ last.err = NoErr
    /\ ~ scope[1]
    /\ Len(sessions) = 2
    /\ sessions[1].state = "closed"
    /\ last.req.session = 2
    /\ session = 2
    /\ sessions[2].state = "open"

\* The event is a call that sent its request and failed on the response
\* or on the transport.
FailedCall(ev) ==
    /\ ev.op \in CallEvents
    /\ ev.ndisp = 1
    /\ (ev.resp.failure \/ ev.resp.status >= 400)

C28_Inv ==
    FailedCall(last) =>
       /\ last.err # NoErr
       /\ session # None
       /\ session = last.req.session
       /\ sessions[session].state = "open"
       /\ sessions[session].closes = 0

C28_Step ==
    \A t \in Tasks :
       /\ (pc[t] = "sent" /\ pc'[t] = "idle") =>
             session' = session /\ sessions' = sessions
       /\ (FailedCall(last) /\ pc[t] = "idle" /\ pc'[t] = "sent") =>
             /\ call'[t].req.session = last.req.session
             /\ session' = session
             /\ sessions' = sessions

\* C28: when a request fails, with a status >= 400 or on the transport,
\* the client holds the same session as before, still open and never
\* closed, and a request made next goes over that session without
\* creating one.
C28_FailureKeepsSession == [] C28_Inv /\ [][C28_Step]_vars

\* C28 witness: a call outside any scope got a 404 and the session it was
\* sent over is still held and open.
C28_Witness ==
    /\ last.op = "update_api_key"
    /\ last.resp.status = 404
    /\ last.err.kind = "aiohttp.ClientResponseError"
    /\ ~ scope[1]
    /\ session = last.req.session
    /\ sessions[session].state = "open"

(***************************************************************************)
(* Properties of a model kept past its expiry (ExpirySpec).                *)
(***************************************************************************)
C29_Inv ==
    \A k \in KeyNames :
       /\ (Ready(1) /\ CanCreate /\ model.cls = "ApiKeyCreate") =>
             ENABLED CallApiKey(1, "create_api_key", k)
       /\ (Ready(1) /\ CanCreate /\ model.cls = "ApiKeyUpdate") =>
             ENABLED CallApiKey(1, "update_api_key", k)

C29_Step ==
    /\ (pc[1] = "idle" /\ pc'[1] = "sent"
        /\ call'[1].op = "create_api_key") =>
          /\ call'[1].req.body.keys = {"name", "expires_at"}
          /\ call'[1].req.body.name = model.name.v
          /\ call'[1].req.body.expires_at.wall = model.expires_at.v.wall
    /\ (pc[1] = "idle" /\ pc'[1] = "sent"
        /\ call'[1].op = "update_api_key"
        /\ model.expires_at.st = "val") =>
          /\ "expires_at" \in call'[1].req.body.keys
          /\ call'[1].req.body.expires_at.wall = model.expires_at.v.wall

\* C29: create_api_key and update_api_key take the model as it was built:
\* whatever the clock shows, the call is made, and the body it sends has
\* the name and the expires_at of the model, also when the instant of
\* expires_at has passed since the model was checked at construction.
C29_CheckedOnceAtConstruction == [] C29_Inv /\ [][C29_Step]_vars

\* C29 witness: a create_api_key is in flight at clock 2 with an
\* expires_at whose instant is 1.
C29_Witness ==
    /\ pc[1] = "sent"
    /\ call[1].op = "create_api_key"
    /\ local_offset = 0
    /\ call[1].req.body.expires_at = [wall |-> 1, suffix |-> "Z"]
    /\ now = MaxClock + 1

=============================================================================
